---- MODULE Spec2Model ----
(***************************************************************************)
(* Task list state machine (TaskListService), the interceptor's            *)
(* handleTaskCompletion, the task_list_update tool, the autonomous         *)
(* orchestrator loop (TaskOrchestratorService.runTask) and the             *)
(* continuation wiring of useGeminiStream.                                 *)
(*                                                                         *)
(* Indices are 0-based as in the TypeScript source: the task at cursor i   *)
(* is tasks[i + 1] of the TLA+ sequence.  A nullable reference is a        *)
(* sequence of length 0 (null) or 1.                                       *)
(***************************************************************************)
EXTENDS Integers, Sequences, FiniteSets, TLC

\* ---------------------------------------------------------------- bounds
MaxTasks == 3
MaxLists == 2
MaxTitles == 2
MaxClock == 1
MaxRepairs == 2
MaxTurns == 1
MaxTimers == 2

\* ------------------------------------------------------ program constants
DefaultMaxRepairs == 2
MaxPlanSteps == 5
MaxRepairSteps == 3
MaxVerifySteps == 2
MaxLocalWords == 8
DEFAULT_GEMINI_FLASH_MODEL == "flash"

\* ---------------------------------------------------------------- inputs
\* Titles the callers of the service pass in.
TitleSet == {"A", "B"}

\* Raw titles handed to the task_list_update tool (not yet trimmed).
RawTitleSet == {"A", " B ", "", " "}

RECURSIVE SeqsUpTo(_, _)
SeqsUpTo(S, n) ==
  IF n = 0 THEN {<<>>}
  ELSE LET shorter == SeqsUpTo(S, n - 1)
       IN shorter \cup {Append(s, x) : s \in {t \in shorter : Len(t) = n - 1}, x \in S}

\* Title lists of every length up to MaxTitles: "A", "B", "A", ... in turn.
TitleSeqs ==
  {s \in SeqsUpTo(TitleSet, MaxTitles) :
     \A i \in 1..Len(s) : s[i] = (IF i % 2 = 1 THEN "A" ELSE "B")}

\* Raw title lists for the tool: clean, padded, partly blank and all blank.
RawTitleSeqs ==
  {r \in SeqsUpTo(RawTitleSet, MaxTitles) :
     r \in {<<"A">>, <<" ", "A">>, <<"A", " B ">>, <<"", " ">>}}

\* ------------------------------------------- texts as character sequences

\* A text is the sequence of its characters, each a one-character string.

UpperCaseLetters ==
  <<"A", "B", "C", "D", "E", "F", "G", "H", "I", "J", "K", "L", "M", "N", "O", "P", "Q",
    "R", "S", "T", "U", "V", "W", "X", "Y", "Z">>

LowerCaseLetters ==
  <<"a", "b", "c", "d", "e", "f", "g", "h", "i", "j", "k", "l", "m", "n", "o", "p", "q",
    "r", "s", "t", "u", "v", "w", "x", "y", "z">>

DigitChars == {"0", "1", "2", "3", "4", "5", "6", "7", "8", "9"}

\* The characters the regular expression class \s matches, among those used.
WhitespaceChars == {" ", "\t", "\n", "\r"}

WordChars ==
  {UpperCaseLetters[k] : k \in 1..26} \cup {LowerCaseLetters[k] : k \in 1..26}
    \cup DigitChars \cup {"_"}

MapChar(c, from, to) ==
  IF \E k \in 1..Len(from) : from[k] = c
  THEN to[CHOOSE k \in 1..Len(from) : from[k] = c]
  ELSE c

toLowerCase(s) == [i \in 1..Len(s) |-> MapChar(s[i], UpperCaseLetters, LowerCaseLetters)]

toUpperCase(s) == [i \in 1..Len(s) |-> MapChar(s[i], LowerCaseLetters, UpperCaseLetters)]

startsWith(s, p) == Len(p) <= Len(s) /\ SubSeq(s, 1, Len(p)) = p

includes(s, p) == \E i \in 1..(Len(s) - Len(p) + 1) : SubSeq(s, i, i + Len(p) - 1) = p

trim(s) ==
  LET kept == {i \in 1..Len(s) : s[i] \notin WhitespaceChars}
  IN IF kept = {} THEN <<>>
     ELSE SubSeq(s, CHOOSE i \in kept : \A j \in kept : i <= j,
                    CHOOSE i \in kept : \A j \in kept : j <= i)

RECURSIVE split(_, _)
split(s, sep) ==
  IF \E i \in 1..Len(s) : s[i] = sep
  THEN LET i == CHOOSE k \in 1..Len(s) : s[k] = sep /\ \A j \in 1..(k - 1) : s[j] # sep
       IN <<SubSeq(s, 1, i - 1)>> \o split(SubSeq(s, i + 1, Len(s)), sep)
  ELSE <<s>>

\* Prompts handed to interceptPrompt.

\* text: 
EmptyPrompt == <<>>

\* text: What is React?
WhatIsReact == <<"W", "h", "a", "t", " ", "i", "s", " ", "R", "e", "a", "c", "t", "?">>

\* text: Create a REST API with auth and tests
CreateRestApi ==
  <<"C", "r", "e", "a", "t", "e", " ", "a", " ", "R", "E", "S", "T", " ", "A", "P", "I",
    " ", "w", "i", "t", "h", " ", "a", "u", "t", "h", " ", "a", "n", "d", " ", "t", "e",
    "s", "t", "s">>

\* text: why add tests
WhyAddTests == <<"w", "h", "y", " ", "a", "d", "d", " ", "t", "e", "s", "t", "s">>

\* text: Is it fast and good?
IsItFastAndGood ==
  <<"I", "s", " ", "i", "t", " ", "f", "a", "s", "t", " ", "a", "n", "d", " ", "g", "o",
    "o", "d", "?">>

\* text: run build
RunBuild == <<"r", "u", "n", " ", "b", "u", "i", "l", "d">>

\* text: test
TestOnly == <<"t", "e", "s", "t">>

\* text: run unit tests
RunTwoWords == <<"r", "u", "n", " ", "u", "n", "i", "t", " ", "t", "e", "s", "t", "s">>

\* text: fix bug
FixBug == <<"f", "i", "x", " ", "b", "u", "g">>

\* text: a b c d e f g h i
NineWords ==
  <<"a", " ", "b", " ", "c", " ", "d", " ", "e", " ", "f", " ", "g", " ", "h", " ", "i">>

\* text: a b c d e f g h
EightWords == <<"a", " ", "b", " ", "c", " ", "d", " ", "e", " ", "f", " ", "g", " ", "h">>

\* text: Show  logs
ShowLogs == <<"S", "h", "o", "w", " ", " ", "l", "o", "g", "s">>

Prompts ==
  {EmptyPrompt, WhatIsReact, CreateRestApi, WhyAddTests,
   IsItFastAndGood, RunBuild, TestOnly, RunTwoWords,
   FixBug, NineWords, EightWords, ShowLogs}

multiStepIndicators ==
  <<<<" ", "a", "n", "d", " ">>,
    <<"t", "h", "e", "n">>,
    <<"a", "f", "t", "e", "r">>,
    <<"n", "e", "x", "t">>,
    <<"f", "i", "n", "a", "l", "l", "y">>,
    <<"f", "i", "r", "s", "t">>,
    <<"s", "e", "c", "o", "n", "d">>,
    <<"s", "t", "e", "p">>,
    <<"c", "r", "e", "a", "t", "e">>,
    <<"b", "u", "i", "l", "d">>,
    <<"i", "m", "p", "l", "e", "m", "e", "n", "t">>,
    <<"a", "d", "d">>,
    <<"w", "r", "i", "t", "e">>,
    <<"t", "e", "s", "t">>,
    <<"w", "i", "t", "h">>,
    <<"i", "n", "c", "l", "u", "d", "e">>,
    <<"r", "e", "f", "a", "c", "t", "o", "r">>,
    <<"m", "i", "g", "r", "a", "t", "e">>,
    <<"s", "e", "t", " ", "u", "p">>,
    <<"s", "e", "t", "u", "p">>,
    <<"c", "o", "n", "f", "i", "g", "u", "r", "e">>,
    <<"i", "n", "t", "e", "g", "r", "a", "t", "e">>,
    <<"d", "e", "v", "e", "l", "o", "p">>,
    <<"m", "a", "k", "e">>>>

\* The patterns /^verb\s+\w+$/ by their verb, and the patterns /^test$/, /^build$/.
singleCommandVerbs ==
  {<<"r", "u", "n">>,
   <<"e", "x", "e", "c", "u", "t", "e">>,
   <<"i", "n", "s", "t", "a", "l", "l">>,
   <<"r", "e", "a", "d">>,
   <<"o", "p", "e", "n">>,
   <<"s", "h", "o", "w">>,
   <<"l", "i", "s", "t">>}

singleCommandWords == {<<"t", "e", "s", "t">>, <<"b", "u", "i", "l", "d">>}

questionPrefixes ==
  {<<"w", "h", "a", "t">>,
   <<"w", "h", "y">>,
   <<"e", "x", "p", "l", "a", "i", "n">>,
   <<"d", "e", "s", "c", "r", "i", "b", "e">>}

\* Texts the Generator answers the decision prompt with.

\* text: YES
YesText == <<"Y", "E", "S">>

\* text:  yes\n
YesPadded == <<" ", "y", "e", "s", "\n">>

\* text: Yes.
YesDot == <<"Y", "e", "s", ".">>

\* text: NO
NoText == <<"N", "O">>

\* text: 
EmptyText == <<>>

\* Texts the Generator answers the task-generation prompt with.

\* text: 1. a\n2. b
NumberedTwo == <<"1", ".", " ", "a", "\n", "2", ".", " ", "b">>

\* text: - a\n- b\n3. c
BulletsAndNumbered == <<"-", " ", "a", "\n", "-", " ", "b", "\n", "3", ".", " ", "c">>

\* text: Sure:\n1.  a \n\n* b\n 2. c
Chatty ==
  <<"S", "u", "r", "e", ":", "\n", "1", ".", " ", " ", "a", " ", "\n", "\n", "*", " ",
    "b", "\n", " ", "2", ".", " ", "c">>

\* text: no tasks
NoTasksText == <<"n", "o", " ", "t", "a", "s", "k", "s">>

VARIABLES
  currentTaskList,  \* TaskListService.currentTaskList (<<>> is null)
  taskHistory,      \* TaskListService.taskHistory
  now,              \* the reading of Date.now()
  listsCreated,     \* number of createTaskList calls so far (bounds the run)
  tasksCreated,     \* number of tasks created so far (bounds the run)
  lastCall,         \* the operation that ran last, its arguments and result
  lastEvents,       \* events emitted by the last operation, each with the
                    \* list as a listener reads it inside the handler
  opc,              \* runTask: the await it is suspended at
  omaxRepairs,      \* runTask: the maxRepairs argument
  osteps,           \* runTask: the steps of the plan being executed
  oi,               \* runTask: loop index i over the steps
  oattempt,         \* runTask: loop variable attempt
  onObs,            \* runTask: observations.length
  otrace,           \* runTask: events emitted and requests issued, in order
  oabortAt,         \* length of otrace when abortSignal fired, -1 before
  oresult,          \* runTask: "none", "true", "false" or "rejected"
  olast,            \* the tools the await that settled last passed to
                    \* executeToolCall, how many of the commands the Generator
                    \* had proposed, and whether a step's call threw
  experimentalOrchestrator,  \* config.getExperimentalOrchestrator()
  uiTaskList,       \* useGeminiStream: the React state currentTaskList is set
  verificationPending,       \* useGeminiStream: verificationPendingRef.current
  isResponding,     \* useGeminiStream: the React state isResponding
  turnCancelled,    \* useGeminiStream: turnCancelledRef.current
  turns,            \* conversation turns being streamed, each with the
                    \* currentTaskList its submitQuery closure captured
  timers,           \* setTimeout callbacks of handleFinishedEvent not yet run;
                    \* a completion timer carries the list that was current
                    \* when it was armed
  orunKey,          \* the task runTask was called for
  verif,            \* outcome of the verification pass of the current task
  advanced,         \* verification outcome of the task that
                    \* handleTaskCompletion completed last
  model,            \* config.getModel(): the active model profile
  icpt,             \* interceptPrompt: the await it is suspended at and its locals
  tgen              \* the task_list tool's execute: likewise

svcVars == <<currentTaskList, taskHistory, now, listsCreated, tasksCreated, lastCall,
             lastEvents>>

orchVars == <<opc, omaxRepairs, osteps, oi, oattempt, onObs, otrace, oabortAt, oresult,
              olast>>

ctlVars == <<experimentalOrchestrator, verificationPending, isResponding, turnCancelled,
             turns, timers, orunKey, advanced>>

\* uiTaskList and verif follow the service through its events and cursor.
obsVars == <<uiTaskList, verif>>

\* The model profile and the calls that switch it.
genVars == <<model, icpt, tgen>>

vars == <<svcVars, orchVars, ctlVars, obsVars, genVars>>

\* ------------------------------------------------------------ data model
NewTask(t, title, index) ==
  [id |-> <<t, index>>, title |-> title, status |-> "pending", error |-> ""]

NewTasks(t, titles) == [i \in 1..Len(titles) |-> NewTask(t, titles[i], i - 1)]

Event(type, taskIndex, list) == [type |-> type, task |-> taskIndex, snap |-> list]

Result(c, h, ev, ret) == [cur |-> c, hist |-> h, ev |-> ev, ret |-> ret]

SetTask(l, idx, status, error) ==
  [l EXCEPT !.tasks[idx + 1].status = status, !.tasks[idx + 1].error = error]

InsertAt(s, k, new) == SubSeq(s, 1, k) \o new \o SubSeq(s, k + 1, Len(s))

Min(a, b) == IF a < b THEN a ELSE b

\* The task a turn or a run works on: the list object and the cursor.
NoKey == <<-1, -1>>

Key(c) == IF c = <<>> THEN NoKey ELSE <<c[1].oid, c[1].currentTaskIndex>>

\* --------------------------------------------------- TaskListService ops
\* Variant: the status of the list is not tested.
getCurrentTaskIndexOrNone_IgnoreStatus(c) ==
  IF c = <<>> THEN -1
  ELSE IF c[1].currentTaskIndex >= 0 /\ c[1].currentTaskIndex < Len(c[1].tasks)
       THEN c[1].currentTaskIndex
       ELSE -1

getCurrentTaskIndexOrNone(c) ==
  IF c = <<>> \/ c[1].status # "active" THEN -1
  ELSE IF c[1].currentTaskIndex >= 0 /\ c[1].currentTaskIndex < Len(c[1].tasks)
       THEN c[1].currentTaskIndex
       ELSE -1

getCurrentTask(c) ==
  IF getCurrentTaskIndexOrNone(c) = -1 THEN <<>>
  ELSE <<c[1].tasks[c[1].currentTaskIndex + 1]>>

\* Variant: the previous list is archived without being marked interrupted.
createTaskListOp_NoInterrupt(c, h, t, titles) ==
  LET h1 == IF c # <<>> THEN Append(h, c[1]) ELSE h
      l == [id |-> t, oid |-> Len(h1), prompt |-> "p", tasks |-> NewTasks(t, titles),
            currentTaskIndex |-> 0, status |-> "active"]
  IN Result(<<l>>, h1, <<Event("taskListCreated", -1, <<l>>)>>, "list")

\* The field oid stands for the identity of the new list object: every list
\* made earlier is in the history by now, so its length is a fresh number.
createTaskListOp(c, h, t, titles) ==
  LET h1 == IF c # <<>> THEN Append(h, [c[1] EXCEPT !.status = "interrupted"]) ELSE h
      l == [id |-> t, oid |-> Len(h1), prompt |-> "p", tasks |-> NewTasks(t, titles),
            currentTaskIndex |-> 0, status |-> "active"]
  IN Result(<<l>>, h1, <<Event("taskListCreated", -1, <<l>>)>>, "list")

startCurrentTaskOp(c, h) ==
  LET ct == getCurrentTask(c)
  IN IF ct = <<>> \/ ct[1].status # "pending"
     THEN Result(c, h, <<>>, "false")
     ELSE LET l == SetTask(c[1], c[1].currentTaskIndex, "in_progress", "")
          IN Result(<<l>>, h,
                    <<Event("taskStarted", c[1].currentTaskIndex, <<l>>)>>, "true")

\* Variant: the end of the list is tested with > instead of >=.
finishCurrentTaskOp_OffByOne(c, h, status, error, evType) ==
  LET ct == getCurrentTask(c)
  IN IF ct = <<>> \/ ct[1].status # "in_progress"
     THEN Result(c, h, <<>>, "none")
     ELSE LET i == c[1].currentTaskIndex
              l1 == SetTask(c[1], i, status, error)
              l2 == [l1 EXCEPT !.currentTaskIndex = i + 1]
              done == l2.currentTaskIndex > Len(l2.tasks)
              l3 == IF done THEN [l2 EXCEPT !.status = "completed"] ELSE l2
          IN Result(<<l3>>, h, <<Event(evType, i, <<l1>>)>>, "task")

\* Variant: the in_progress precondition is not tested.
finishCurrentTaskOp_NoGuard(c, h, status, error, evType) ==
  LET ct == getCurrentTask(c)
  IN IF ct = <<>>
     THEN Result(c, h, <<>>, "none")
     ELSE LET i == c[1].currentTaskIndex
              l1 == SetTask(c[1], i, status, error)
              l2 == [l1 EXCEPT !.currentTaskIndex = i + 1]
              done == l2.currentTaskIndex >= Len(l2.tasks)
              l3 == IF done THEN [l2 EXCEPT !.status = "completed"] ELSE l2
              evs == IF done
                     THEN <<Event(evType, i, <<l1>>), Event("taskListCompleted", -1, <<l3>>)>>
                     ELSE <<Event(evType, i, <<l1>>)>>
          IN Result(<<l3>>, h, evs, "task")

\* Variant: the cursor is advanced but the task's status is not set.
finishCurrentTaskOp_NoStatus(c, h, status, error, evType) ==
  LET ct == getCurrentTask(c)
  IN IF ct = <<>> \/ ct[1].status # "in_progress"
     THEN Result(c, h, <<>>, "none")
     ELSE LET i == c[1].currentTaskIndex
              l2 == [c[1] EXCEPT !.currentTaskIndex = i + 1]
              done == l2.currentTaskIndex >= Len(l2.tasks)
              l3 == IF done THEN [l2 EXCEPT !.status = "completed"] ELSE l2
          IN Result(<<l3>>, h, <<Event(evType, i, <<c[1]>>)>>, "task")

\* Shared body of completeCurrentTask / failCurrentTask: the task's status is
\* set, the task event is emitted, then the cursor is advanced and, when it
\* reaches the end, the list is completed and taskListCompleted is emitted.
finishCurrentTaskOp(c, h, status, error, evType) ==
  LET ct == getCurrentTask(c)
  IN IF ct = <<>> \/ ct[1].status # "in_progress"
     THEN Result(c, h, <<>>, "none")
     ELSE LET i == c[1].currentTaskIndex
              l1 == SetTask(c[1], i, status, error)
              ev1 == Event(evType, i, <<l1>>)
              l2 == [l1 EXCEPT !.currentTaskIndex = i + 1]
              done == l2.currentTaskIndex >= Len(l2.tasks)
              l3 == IF done THEN [l2 EXCEPT !.status = "completed"] ELSE l2
              evs == IF done THEN <<ev1, Event("taskListCompleted", -1, <<l3>>)>>
                     ELSE <<ev1>>
          IN Result(<<l3>>, h, evs, "task")

completeCurrentTaskOp_OffByOne(c, h) ==
  finishCurrentTaskOp_OffByOne(c, h, "completed", "", "taskCompleted")

completeCurrentTaskOp(c, h) ==
  finishCurrentTaskOp(c, h, "completed", "", "taskCompleted")

failCurrentTaskOp_NoGuard(c, h, error) ==
  finishCurrentTaskOp_NoGuard(c, h, "failed", error, "taskFailed")

failCurrentTaskOp(c, h, error) ==
  finishCurrentTaskOp(c, h, "failed", error, "taskFailed")

\* Variant: the archived list gets its cursor reset.
clearTaskListOp_Rewind(c, h) ==
  IF c # <<>>
  THEN Result(<<>>, Append(h, [c[1] EXCEPT !.status = "interrupted",
                                           !.currentTaskIndex = 0]),
              <<Event("taskListCleared", -1, <<>>)>>, "void")
  ELSE Result(c, h, <<>>, "void")

clearTaskListOp(c, h) ==
  IF c # <<>>
  THEN Result(<<>>, Append(h, [c[1] EXCEPT !.status = "interrupted"]),
              <<Event("taskListCleared", -1, <<>>)>>, "void")
  ELSE Result(c, h, <<>>, "void")

\* Variant: the new tasks are inserted at the cursor instead of after it.
insertTasksAfterCurrentOp_AtCursor(c, h, t, titles) ==
  IF c = <<>> \/ Len(titles) = 0 THEN Result(c, h, <<>>, "void")
  ELSE LET insertIndex == Min(c[1].currentTaskIndex, Len(c[1].tasks))
           l == [c[1] EXCEPT !.tasks = InsertAt(@, insertIndex, NewTasks(t, titles))]
       IN Result(<<l>>, h, <<Event("taskListUpdated", -1, <<l>>)>>, "void")

insertTasksAfterCurrentOp(c, h, t, titles) ==
  IF c = <<>> \/ Len(titles) = 0 THEN Result(c, h, <<>>, "void")
  ELSE LET insertIndex == Min(c[1].currentTaskIndex + 1, Len(c[1].tasks))
           l == [c[1] EXCEPT !.tasks = InsertAt(@, insertIndex, NewTasks(t, titles))]
       IN Result(<<l>>, h, <<Event("taskListUpdated", -1, <<l>>)>>, "void")

\* Variant: the tasks behind the cursor are replaced by the new ones.
appendTasksOp_Replace(c, h, t, titles) ==
  IF c = <<>> \/ Len(titles) = 0 THEN Result(c, h, <<>>, "void")
  ELSE LET kept == SubSeq(c[1].tasks, 1, Min(c[1].currentTaskIndex + 1, Len(c[1].tasks)))
           l == [c[1] EXCEPT !.tasks = kept \o NewTasks(t, titles)]
       IN Result(<<l>>, h, <<Event("taskListUpdated", -1, <<l>>)>>, "void")

appendTasksOp(c, h, t, titles) ==
  IF c = <<>> \/ Len(titles) = 0 THEN Result(c, h, <<>>, "void")
  ELSE LET l == [c[1] EXCEPT !.tasks = @ \o NewTasks(t, titles)]
       IN Result(<<l>>, h, <<Event("taskListUpdated", -1, <<l>>)>>, "void")

\* ------------------------------------------- task_list_update tool (execute)
\* String.prototype.trim on the raw titles of RawTitleSet.
Trim(t) == IF t = " B " THEN "B" ELSE IF t = " " THEN "" ELSE t

NonEmpty(t) == t # ""

cleanTasks(raw) == SelectSeq([i \in 1..Len(raw) |-> Trim(raw[i])], NonEmpty)

taskListUpdateExecuteOp(c, h, t, operation, raw) ==
  IF c = <<>> \/ c[1].status # "active" THEN Result(c, h, <<>>, "No active task list")
  ELSE IF Len(cleanTasks(raw)) = 0 THEN Result(c, h, <<>>, "No valid task titles")
  ELSE LET r == IF operation = "insert_after_current"
                THEN insertTasksAfterCurrentOp(c, h, t, cleanTasks(raw))
                ELSE appendTasksOp(c, h, t, cleanTasks(raw))
       IN Result(r.cur, r.hist, r.ev, "Task List Updated")

\* ------------------------------------------- TaskOrchestratorService
AllowedTools ==
  {"shell", "edit", "write_file", "read_file", "ls", "glob", "grep",
   "read_many_files", "web_fetch"}

\* Variant: every tool name is let through.
isAllowedTool_Any(tool) == TRUE

isAllowedTool(tool) == tool \in AllowedTools

Slice(s, n) == SubSeq(s, 1, Min(n, Len(s)))

\* A Generator reply: the call throws, the text is not JSON, or it parses to
\* a plan whose steps name these tools.
Reply(kind, steps) == [kind |-> kind, steps |-> steps]

PlanReplies ==
  {Reply("throw", <<>>), Reply("garbage", <<>>), Reply("json", <<>>),
   Reply("json", <<"rm">>),
   Reply("json", <<"shell", "rm", "edit">>),
   Reply("json", <<"ls", "grep", "read_file", "edit", "shell", "web_fetch">>)}

\* safeParseJson, then the safelist filter and the slice; <<>> is null.
parsePlan(reply, cap) ==
  IF reply.kind # "json" THEN <<>>
  ELSE <<Slice(SelectSeq(reply.steps, isAllowedTool), cap)>>

\* Variant: a plan without steps is taken for a plan.
NoUsablePlan_NullOnly(plan) == plan = <<>>

NoUsablePlan(plan) == plan = <<>> \/ Len(plan[1]) = 0

\* --- verify()
ScriptSets ==
  {{}, {"start"}, {"preflight", "build"}, {"build", "test"},
   {"typecheck", "lint", "lint:ci", "test", "test:ci"}}

Manifests ==
  {[kind |-> "absent", scripts |-> {}], [kind |-> "invalid", scripts |-> {}]}
    \cup {[kind |-> "ok", scripts |-> sc] : sc \in ScriptSets}

If(b, x) == IF b THEN <<x>> ELSE <<>>

toRun(scripts) ==
  IF "preflight" \in scripts THEN <<"npm run preflight">>
  ELSE If("build" \in scripts, "npm run build")
       \o If("typecheck" \in scripts, "npm run typecheck")
       \o (IF "lint:ci" \in scripts THEN <<"npm run lint:ci">>
           ELSE If("lint" \in scripts, "npm run lint"))
       \o (IF "test:ci" \in scripts THEN <<"npm run test:ci">>
           ELSE If("test" \in scripts, "npm run test"))

\* How the commands of one verification fare: the command at index `at`
\* (0: none) returns an error response or makes executeToolCall throw.
Fates == {[at |-> 0, kind |-> "error"]}
           \cup {[at |-> k, kind |-> kd] : k \in 1..2, kd \in {"error", "throw"}}

\* Runs n commands in order, stopping at the first that errs or throws.
runCommands(n, fate) ==
  IF fate.at \in 1..n THEN [ran |-> fate.at, end |-> fate.kind]
  ELSE [ran |-> n, end |-> "ok"]

VerifySteps ==
  {<<>>,
   <<[tool |-> "edit", command |-> "c"]>>,
   <<[tool |-> "shell", command |-> " "]>>,
   <<[tool |-> "shell", command |-> "c"]>>,
   <<[tool |-> "shell", command |-> "c"], [tool |-> "shell", command |-> "c"],
     [tool |-> "shell", command |-> "c"]>>,
   <<[tool |-> "shell", command |-> " "], [tool |-> "edit", command |-> "c"],
     [tool |-> "shell", command |-> "c"], [tool |-> "shell", command |-> "c"]>>}

VerifyReplies ==
  {Reply("throw", <<>>), Reply("garbage", <<>>)}
    \cup {Reply("json", st) : st \in VerifySteps}

IsShell(step) == step.tool = "shell"

HasCommand(step) == step.command # " "

\* ran: commands passed to executeToolCall; proposed: those of them that
\* the Generator proposed.
VerifyResult(result, ran, proposed, path) ==
  [result |-> result, ran |-> ran, proposed |-> proposed, path |-> path]

\* The fallback of verify(): Generator-proposed shell commands.
verifyFallback(reply, fate, ranBefore) ==
  IF reply.kind = "throw" THEN VerifyResult("rejected", ranBefore, 0, "generator")
  ELSE IF reply.kind = "garbage" THEN VerifyResult("false", ranBefore, 0, "generator")
  ELSE LET steps == Slice(SelectSeq(reply.steps, IsShell), MaxVerifySteps)
           r == runCommands(Len(SelectSeq(steps, HasCommand)), fate)
       IN IF Len(steps) = 0 THEN VerifyResult("false", ranBefore, 0, "generator")
          ELSE VerifyResult(IF r.end = "ok" THEN "true"
                            ELSE IF r.end = "error" THEN "false" ELSE "rejected",
                            ranBefore + r.ran, r.ran, "generator")

\* verify(): manifest scripts when package.json exists, else the fallback;
\* anything thrown in the manifest part is swallowed and falls back.
verifyOp(manifest, fate, reply, fate2) ==
  IF manifest.kind = "absent" \/ manifest.kind = "invalid"
  THEN verifyFallback(reply, fate2, 0)
  ELSE LET cmds == toRun(manifest.scripts)
           r == runCommands(Len(cmds), fate)
       IN IF r.end = "throw" THEN verifyFallback(reply, fate2, r.ran)
          ELSE IF r.end = "error" THEN VerifyResult("false", r.ran, 0, "manifest")
          ELSE VerifyResult(IF Len(cmds) > 0 THEN "true" ELSE "false", r.ran, 0,
                            "manifest")

\* ------------------------------------------------------------ the actions
\* The listeners useGeminiStream registers: taskListCreated, taskStarted,
\* taskCompleted and taskListUpdated set the React state, taskListCompleted
\* clears it; taskFailed and taskListCleared have no listener.
UiListeners == {"taskListCreated", "taskStarted", "taskCompleted", "taskListUpdated",
                "taskListCompleted"}

HasListener(e) == e.type \in UiListeners

uiAfter(ui, evs) ==
  LET heard == SelectSeq(evs, HasListener)
  IN IF heard = <<>> THEN ui ELSE heard[Len(heard)].type # "taskListCompleted"

\* The verification outcome belongs to the task at the cursor: it is
\* undetermined again as soon as another task is the current one.
verifAfter(c, d, v) == IF Key(d) # Key(c) THEN "undetermined" ELSE v

Observe(r, v) ==
  /\ uiTaskList' = uiAfter(uiTaskList, r.ev)
  /\ verif' = verifAfter(currentTaskList, r.cur, v)

Call(op, args, r) ==
  /\ currentTaskList' = r.cur
  /\ taskHistory' = r.hist
  /\ lastEvents' = r.ev
  /\ lastCall' = [op |-> op, args |-> args, ret |-> r.ret]
  /\ Observe(r, verif)

NumTasks(c) == IF c = <<>> THEN 0 ELSE Len(c[1].tasks)

Added(c, d) == NumTasks(d) - NumTasks(c)

Room(titles) == tasksCreated + Len(titles) <= MaxTasks

\* Nothing has been passed to executeToolCall.
NoExec ==
  [tools |-> {}, proposed |-> 0, error |-> FALSE, path |-> "none", available |-> FALSE]

\* The locals of a call that is not running.  icpt and tgen keep the locals
\* of the call that ended last, until the next call begins.
NoReply == [kind |-> "none", text |-> <<>>]

IdleCall ==
  [pc |-> "idle", prompt |-> <<>>, originalModel |-> "", decisionCalls |-> 0,
   decision |-> "none", decisionReply |-> NoReply, reply |-> NoReply, titles |-> <<>>,
   result |-> "none"]

InitCommon ==
  /\ currentTaskList = <<>>
  /\ taskHistory = <<>>
  /\ now = 0
  /\ listsCreated = 0
  /\ tasksCreated = 0
  /\ lastCall = [op |-> "init", args |-> <<>>, ret |-> "void"]
  /\ lastEvents = <<>>
  /\ opc = "idle"
  /\ omaxRepairs = DefaultMaxRepairs
  /\ osteps = <<>>
  /\ oi = 0
  /\ oattempt = 0
  /\ onObs = 0
  /\ otrace = <<>>
  /\ oabortAt = -1
  /\ oresult = "none"
  /\ olast = NoExec
  /\ uiTaskList = FALSE
  /\ verificationPending = FALSE
  /\ isResponding = FALSE
  /\ turnCancelled = FALSE
  /\ turns = <<>>
  /\ timers = [complete |-> <<>>, resubmit |-> 0]
  /\ orunKey = NoKey
  /\ verif = "undetermined"
  /\ advanced = "none"
  /\ icpt = IdleCall
  /\ tgen = IdleCall

Init == InitCommon /\ experimentalOrchestrator = FALSE /\ model = "pro"

Tick ==
  /\ now < MaxClock
  /\ now' = now + 1
  /\ UNCHANGED <<currentTaskList, taskHistory, listsCreated, tasksCreated, lastCall,
                 lastEvents, orchVars, ctlVars, genVars, obsVars>>

createTaskList ==
  \E titles \in TitleSeqs :
    /\ listsCreated < MaxLists
    /\ Room(titles)
    /\ listsCreated' = listsCreated + 1
    /\ tasksCreated' = tasksCreated + Len(titles)
    /\ Call("createTaskList", titles,
            createTaskListOp(currentTaskList, taskHistory, now, titles))
    /\ UNCHANGED <<now, orchVars, ctlVars, genVars>>

startCurrentTask ==
  /\ Call("startCurrentTask", <<>>, startCurrentTaskOp(currentTaskList, taskHistory))
  /\ UNCHANGED <<now, listsCreated, tasksCreated, orchVars, ctlVars, genVars>>

completeCurrentTask ==
  /\ Call("completeCurrentTask", <<>>,
          completeCurrentTaskOp(currentTaskList, taskHistory))
  /\ UNCHANGED <<now, listsCreated, tasksCreated, orchVars, ctlVars, genVars>>

failCurrentTask ==
  /\ Call("failCurrentTask", <<"err">>,
          failCurrentTaskOp(currentTaskList, taskHistory, "err"))
  /\ UNCHANGED <<now, listsCreated, tasksCreated, orchVars, ctlVars, genVars>>

clearTaskList ==
  /\ Call("clearTaskList", <<>>, clearTaskListOp(currentTaskList, taskHistory))
  /\ UNCHANGED <<now, listsCreated, tasksCreated, orchVars, ctlVars, genVars>>

insertTasksAfterCurrent ==
  \E titles \in TitleSeqs :
    /\ Room(titles)
    /\ Call("insertTasksAfterCurrent", titles,
            insertTasksAfterCurrentOp(currentTaskList, taskHistory, now, titles))
    /\ tasksCreated' = tasksCreated + Added(currentTaskList, currentTaskList')
    /\ UNCHANGED <<now, listsCreated, orchVars, ctlVars, genVars>>

appendTasks ==
  \E titles \in TitleSeqs :
    /\ Room(titles)
    /\ Call("appendTasks", titles,
            appendTasksOp(currentTaskList, taskHistory, now, titles))
    /\ tasksCreated' = tasksCreated + Added(currentTaskList, currentTaskList')
    /\ UNCHANGED <<now, listsCreated, orchVars, ctlVars, genVars>>

taskListUpdateExecute ==
  \E operation \in {"insert_after_current", "append"}, raw \in RawTitleSeqs :
    /\ Room(cleanTasks(raw))
    /\ Call(operation, cleanTasks(raw),
            taskListUpdateExecuteOp(currentTaskList, taskHistory, now, operation, raw))
    /\ tasksCreated' = tasksCreated + Added(currentTaskList, currentTaskList')
    /\ UNCHANGED <<now, listsCreated, orchVars, ctlVars, genVars>>

Next ==
  \/ Tick
  \/ createTaskList
  \/ startCurrentTask
  \/ completeCurrentTask
  \/ failCurrentTask
  \/ clearTaskList
  \/ insertTasksAfterCurrent
  \/ appendTasks
  \/ taskListUpdateExecute

Spec == Init /\ [][Next]_vars

\* ---------------------------------------------------- runTask, await by await
Emit(entries) == otrace' = otrace \o entries

Return(result) == opc' = "done" /\ oresult' = result

\* runTask is called: the info event, then proposeActionPlan is awaited.
runTaskCall ==
  \E n \in 0..MaxRepairs :
    /\ opc = "idle"
    /\ omaxRepairs' = n
    /\ Emit(<<"info", "req_plan">>)
    /\ opc' = "plan"
    /\ UNCHANGED <<svcVars, ctlVars, genVars, obsVars, osteps, oi, oattempt, onObs, oabortAt,
                   oresult, olast>>

\* proposeActionPlan settles with `reply`; the first step is started if
\* there is one.
planReturnsWith(reply) ==
  /\ opc = "plan"
  /\ IF reply.kind = "throw"
     THEN Return("rejected") /\ UNCHANGED <<otrace, osteps>>
     ELSE IF NoUsablePlan(parsePlan(reply, MaxPlanSteps))
     THEN Return("false") /\ Emit(<<"error">>) /\ UNCHANGED osteps
     ELSE /\ osteps' = parsePlan(reply, MaxPlanSteps)[1]
          /\ Emit(<<"plan", "step_start", "req_tool">>)
          /\ opc' = "step"
          /\ UNCHANGED oresult
  /\ UNCHANGED <<svcVars, ctlVars, genVars, obsVars, omaxRepairs, oi, oattempt, onObs,
                 oabortAt, olast>>

planReturns == \E reply \in PlanReplies : planReturnsWith(reply)

\* Variant: an error thrown by executeToolCall is not caught.
stepErrorCaught_Rethrow(error) == ~error

\* The try/catch around executeToolCall: the error becomes an observation.
stepErrorCaught(error) == TRUE

\* The request of the step at index oi, settled with or without an error.
Executed(error) ==
  [tools |-> {osteps[oi + 1]}, proposed |-> 0, error |-> error, path |-> "none",
   available |-> FALSE]

\* executeToolCall of a planned step settles (result or thrown error: one
\* observation and step_result either way); next step, or the first verify.
stepReturns ==
  \E error \in BOOLEAN :
    /\ opc = "step"
    /\ olast' = Executed(error)
    /\ IF ~stepErrorCaught(error)
       THEN Return("rejected") /\ UNCHANGED <<onObs, oi, oattempt, otrace>>
       ELSE /\ onObs' = onObs + 1
            /\ IF oi + 1 < Len(osteps)
               THEN /\ oi' = oi + 1
                    /\ Emit(<<"step_result", "step_start", "req_tool">>)
                    /\ UNCHANGED <<opc, oattempt, oresult>>
               ELSE IF 0 <= omaxRepairs
               THEN /\ oattempt' = 0
                    /\ Emit(<<"step_result", "verify", "req_verify">>)
                    /\ opc' = "verify"
                    /\ UNCHANGED <<oi, oresult>>
               ELSE /\ Emit(<<"step_result">>)
                    /\ Return("false")
                    /\ UNCHANGED <<oi, oattempt>>
    /\ UNCHANGED <<svcVars, ctlVars, genVars, obsVars, omaxRepairs, osteps, oabortAt>>

\* The checks verify() selects from the manifest: none without a manifest
\* that parses.
manifestChecks(manifest) ==
  IF manifest.kind = "ok" THEN toRun(manifest.scripts) ELSE <<>>

\* An outcome of verify() together with whether the manifest offered a check.
Outcome(v, checks) ==
  [result |-> v.result, ran |-> v.ran, proposed |-> v.proposed, path |-> v.path,
   available |-> checks # <<>>]

\* What verify() can come back with, over every manifest, every fate of its
\* commands and every Generator reply.
VerifyOutcomes ==
  {Outcome(verifyOp(manifest, fate, reply, fate2), manifestChecks(manifest)) :
     manifest \in Manifests, fate \in Fates, reply \in VerifyReplies, fate2 \in Fates}

\* verify settles: success returns true; on failure a repair plan is asked for.
verifyReturns ==
  \E v \in VerifyOutcomes :
       /\ opc = "verify"
       /\ IF v.result = "rejected"
          THEN Return("rejected") /\ UNCHANGED otrace
          ELSE IF v.result = "true"
          THEN Return("true") /\ Emit(<<"verify_result">>)
          ELSE /\ Emit(<<"verify_result", "req_repair">>)
               /\ opc' = "repairPlan"
               /\ UNCHANGED oresult
       /\ olast' = [tools |-> IF v.ran > 0 THEN {"shell"} ELSE {},
                    proposed |-> v.proposed, error |-> FALSE, path |-> v.path,
                    available |-> v.available]
       /\ UNCHANGED <<svcVars, ctlVars, genVars, obsVars, omaxRepairs, osteps, oi, oattempt,
                      onObs, oabortAt>>

\* proposeRepairPlan settles; the first repair step is started if there is one.
repairPlanReturns ==
  \E reply \in PlanReplies :
    /\ opc = "repairPlan"
    /\ IF reply.kind = "throw"
       THEN Return("rejected") /\ UNCHANGED <<otrace, osteps, oi>>
       ELSE IF NoUsablePlan(parsePlan(reply, MaxRepairSteps))
       THEN Return("false") /\ Emit(<<"error">>) /\ UNCHANGED <<osteps, oi>>
       ELSE /\ osteps' = parsePlan(reply, MaxRepairSteps)[1]
            /\ oi' = 0
            /\ Emit(<<"plan", "step_start", "req_tool">>)
            /\ opc' = "repairStep"
            /\ UNCHANGED oresult
    /\ UNCHANGED <<svcVars, ctlVars, genVars, obsVars, omaxRepairs, oattempt, onObs, oabortAt,
                   olast>>

\* executeToolCall of a repair step settles; next repair step, or attempt++
\* and the next verify, or the end of the loop.
repairStepReturns ==
  \E error \in BOOLEAN :
    /\ opc = "repairStep"
    /\ olast' = Executed(error)
    /\ IF ~stepErrorCaught(error)
       THEN Return("rejected") /\ UNCHANGED <<onObs, oi, oattempt, otrace>>
       ELSE /\ onObs' = onObs + 1
            /\ IF oi + 1 < Len(osteps)
               THEN /\ oi' = oi + 1
                    /\ Emit(<<"step_result", "step_start", "req_tool">>)
                    /\ UNCHANGED <<opc, oattempt, oresult>>
               ELSE /\ oattempt' = oattempt + 1
                    /\ UNCHANGED oi
                    /\ IF oattempt + 1 <= omaxRepairs
                       THEN /\ Emit(<<"step_result", "verify", "req_verify">>)
                            /\ opc' = "verify"
                            /\ UNCHANGED oresult
                       ELSE Emit(<<"step_result">>) /\ Return("false")
    /\ UNCHANGED <<svcVars, ctlVars, genVars, obsVars, omaxRepairs, osteps, oabortAt>>

\* The caller's AbortSignal fires while runTask is suspended.
abort ==
  /\ opc \notin {"idle", "done"}
  /\ oabortAt = -1
  /\ oabortAt' = Len(otrace)
  /\ UNCHANGED <<svcVars, ctlVars, genVars, obsVars, opc, omaxRepairs, osteps, oi, oattempt,
                 onObs, otrace, oresult, olast>>

NextOrch ==
  \/ runTaskCall
  \/ planReturns
  \/ stepReturns
  \/ verifyReturns
  \/ repairPlanReturns
  \/ repairStepReturns
  \/ abort

SpecOrch == Init /\ [][NextOrch]_vars

\* ------------------------------------------------- TaskListInterceptor
\* Variant: the next task is not started.
handleTaskCompletionOp_NoStart(c, h) ==
  LET r1 == completeCurrentTaskOp(c, h)
  IN IF r1.ret = "none" THEN Result(c, h, <<>>, "null")
     ELSE IF getCurrentTask(r1.cur) = <<>> THEN Result(r1.cur, r1.hist, r1.ev, "null")
     ELSE Result(r1.cur, r1.hist, r1.ev, "prompt")

\* handleTaskCompletion: complete the current task; if a task remains, start
\* it and return the next prompt, else return null.
handleTaskCompletionOp(c, h) ==
  LET r1 == completeCurrentTaskOp(c, h)
      r2 == startCurrentTaskOp(r1.cur, r1.hist)
  IN IF r1.ret = "none" THEN Result(c, h, <<>>, "null")
     ELSE IF getCurrentTask(r1.cur) = <<>> THEN Result(r1.cur, r1.hist, r1.ev, "null")
     ELSE Result(r2.cur, r2.hist, r1.ev \o r2.ev, "prompt")

\* interceptPrompt after the decision (shouldCreate) and the title
\* generation (titles) have settled: create the list and start its first task.
interceptPromptOp(c, h, t, shouldCreate, titles) ==
  LET r1 == createTaskListOp(c, h, t, titles)
      r2 == startCurrentTaskOp(r1.cur, r1.hist)
  IN IF ~shouldCreate THEN Result(c, h, <<>>, "no")
     ELSE IF Len(titles) = 0 THEN Result(c, h, <<>>, "attempted")
     ELSE IF getCurrentTask(r2.cur) = <<>>
          THEN Result(r2.cur, r2.hist, r1.ev \o r2.ev, "no")
          ELSE Result(r2.cur, r2.hist, r1.ev \o r2.ev, "proceed")

\* ----------------------------------------------- useGeminiStream wiring
FinishReasons == {"STOP", "MAX_TOKENS"}

Turn(kind, cap, c) == [kind |-> kind, cap |-> cap, key |-> Key(c)]

RemoveAt(s, k) == SubSeq(s, 1, k - 1) \o SubSeq(s, k + 1, Len(s))

TimerCount == Len(timers.complete) + timers.resubmit

\* runTask is entered from submitQuery with the default maxRepairs.
StartRun(c) ==
  /\ opc' = "plan"
  /\ omaxRepairs' = DefaultMaxRepairs
  /\ osteps' = <<>>
  /\ oi' = 0
  /\ oattempt' = 0
  /\ onObs' = 0
  /\ otrace' = <<"info", "req_plan">>
  /\ oabortAt' = -1
  /\ oresult' = "none"
  /\ olast' = NoExec
  /\ orunKey' = Key(c)

\* Whether the bounds leave room for the submission: a closure that
\* captured currentTaskList as `cap` goes to runTask when the orchestrator
\* is enabled and to the stream otherwise.
CanSubmit(cap, c, free, ts) ==
  IF experimentalOrchestrator /\ cap
  THEN getCurrentTask(c) = <<>> \/ free
  ELSE Len(ts) < MaxTurns

\* submitQuery past its guard, for the turn t: turnCancelledRef is reset,
\* then the turn goes to runTask or to the stream.
SubmitTurn(t, c, ts) ==
  /\ turnCancelled' = FALSE
  /\ IF experimentalOrchestrator /\ t.cap
     THEN /\ turns' = ts
          /\ IF getCurrentTask(c) = <<>>
             THEN /\ isResponding' = FALSE
                  /\ opc' = "idle"
                  /\ UNCHANGED <<omaxRepairs, osteps, oi, oattempt, onObs, otrace,
                                 oabortAt, oresult, olast, orunKey>>
             ELSE StartRun(c) /\ UNCHANGED isResponding
     ELSE /\ turns' = Append(ts, t)
          /\ isResponding' = TRUE
          /\ UNCHANGED <<orchVars, orunKey>>

Submit(kind, cap, c, ts) == SubmitTurn(Turn(kind, cap, c), c, ts)

\* submitQuery for a new user request, up to the point where the turn is
\* handed to the stream or to runTask.  currentTaskList inside the callback
\* is the value its closure captured (uiTaskList at the call), also after
\* interceptPrompt has created a list.
submitQueryUser ==
  \E shouldCreate \in BOOLEAN, titles \in TitleSeqs :
    LET cap == uiTaskList
        r1 == IF ~cap
              THEN interceptPromptOp(currentTaskList, taskHistory, now, shouldCreate, titles)
              ELSE Result(currentTaskList, taskHistory, <<>>, "skipped")
        created == r1.ret = "proceed"
        orch == experimentalOrchestrator /\ cap
        r2 == IF ~orch /\ (~cap \/ r1.cur = <<>> \/ r1.cur[1].status # "active")
              THEN clearTaskListOp(r1.cur, r1.hist)
              ELSE Result(r1.cur, r1.hist, <<>>, "void")
        r == Result(r2.cur, r2.hist, r1.ev \o r2.ev, r1.ret)
    IN /\ ~isResponding
       /\ opc = "idle"
       /\ cap => (~shouldCreate /\ titles = <<>>)
       /\ ~shouldCreate => titles = <<>>
       /\ created => (listsCreated < MaxLists /\ Room(titles))
       /\ CanSubmit(cap, r.cur, TRUE, turns)
       /\ listsCreated' = IF created THEN listsCreated + 1 ELSE listsCreated
       /\ tasksCreated' = IF created THEN tasksCreated + Len(titles) ELSE tasksCreated
       /\ currentTaskList' = r.cur
       /\ taskHistory' = r.hist
       /\ lastEvents' = r.ev
       /\ lastCall' = [op |-> "submitQuery", args |-> titles, ret |-> r.ret]
       /\ Observe(r, verif)
       /\ Submit("user", cap, r.cur, turns)
       /\ UNCHANGED <<now, experimentalOrchestrator, genVars, verificationPending, timers, advanced>>

\* Variant: the finish reason is not tested.
TaskLogicEligible_AnyReason(cap, reason) == cap

\* The condition under which handleFinishedEvent runs the task logic.
TaskLogicEligible(cap, reason) == cap /\ reason = "STOP"

\* A streamed turn delivers its Finished event and ends.  `outcome` is what
\* the checks of a verification turn found; handleFinishedEvent is given the
\* finish reason only.
finishTurn ==
  \E k \in 1..Len(turns), reason \in FinishReasons, outcome \in {"passed", "failed"} :
    LET t == turns[k]
        rest == RemoveAt(turns, k)
        eligible == TaskLogicEligible(t.cap, reason)
        askVerify == eligible /\ ~verificationPending
                       /\ getCurrentTask(currentTaskList) # <<>>
        judged == t.kind = "verify" /\ reason = "STOP" /\ t.key = Key(currentTaskList)
    IN /\ outcome = "failed" => judged
       /\ verificationPending' = IF eligible THEN ~verificationPending
                                 ELSE verificationPending
       /\ IF eligible /\ verificationPending
          THEN /\ TimerCount < MaxTimers
               /\ timers' = [timers EXCEPT !.complete = Append(@, Key(currentTaskList)[1])]
          ELSE UNCHANGED timers
       /\ IF askVerify
          THEN /\ CanSubmit(uiTaskList, currentTaskList, opc = "idle", rest)
               /\ Submit("verify", uiTaskList, currentTaskList, rest)
          ELSE /\ turns' = rest
               /\ isResponding' = FALSE
               /\ UNCHANGED <<orchVars, orunKey, turnCancelled>>
       /\ verif' = IF judged THEN outcome ELSE verif
       /\ lastCall' = [op |-> "handleFinishedEvent",
                       args |-> <<reason, t.kind,
                                  IF t.key = Key(currentTaskList) THEN "current" ELSE "other">>,
                       ret |-> IF askVerify THEN "verify" ELSE "void"]
       /\ lastEvents' = <<>>
       /\ UNCHANGED <<currentTaskList, taskHistory, now, listsCreated, tasksCreated,
                      experimentalOrchestrator, genVars, uiTaskList, advanced>>

\* handleCompletedTools: the tool calls of a turn are done and their
\* responses are submitted as a continuation by the latest submitQuery.  The
\* continuation of a verification turn is still that verification turn.
handleCompletedTools ==
  \E k \in 1..Len(turns) :
    LET rest == RemoveAt(turns, k)
        next == IF turns[k].kind = "verify"
                THEN [turns[k] EXCEPT !.cap = uiTaskList]
                ELSE Turn("tools", uiTaskList, currentTaskList)
    IN /\ CanSubmit(uiTaskList, currentTaskList, opc = "idle", rest)
       /\ SubmitTurn(next, currentTaskList, rest)
       /\ lastCall' = [op |-> "handleCompletedTools", args |-> <<>>, ret |-> "void"]
       /\ lastEvents' = <<>>
       /\ UNCHANGED <<currentTaskList, taskHistory, now, listsCreated, tasksCreated,
                      experimentalOrchestrator, genVars, verificationPending, timers, advanced,
                      obsVars>>

\* The 300 ms timer of handleFinishedEvent runs handleTaskCompletion and, if
\* it returned a prompt, arms the 1000 ms timer.
timerComplete ==
  LET r == handleTaskCompletionOp(currentTaskList, taskHistory)
  IN /\ timers.complete # <<>>
     /\ timers' = [complete |-> Tail(timers.complete),
                   resubmit |-> IF r.ret = "prompt" THEN timers.resubmit + 1
                                ELSE timers.resubmit]
     /\ advanced' = IF r.ev # <<>> THEN verif ELSE advanced
     /\ Call("handleTaskCompletion", <<>>, r)
     /\ UNCHANGED <<now, listsCreated, tasksCreated, orchVars, experimentalOrchestrator, genVars,
                    verificationPending, isResponding, turnCancelled, turns, orunKey>>

\* The 1000 ms timer submits the next-task prompt as a continuation.
timerResubmit ==
  /\ timers.resubmit > 0
  /\ timers' = [timers EXCEPT !.resubmit = @ - 1]
  /\ CanSubmit(uiTaskList, currentTaskList, opc = "idle", turns)
  /\ Submit("next", uiTaskList, currentTaskList, turns)
  /\ lastCall' = [op |-> "submitQuery", args |-> <<>>, ret |-> "continuation"]
  /\ lastEvents' = <<>>
  /\ UNCHANGED <<currentTaskList, taskHistory, now, listsCreated, tasksCreated,
                 experimentalOrchestrator, genVars, verificationPending, advanced, obsVars>>

\* The orchestrator branch of submitQuery resumes after runTask settled: on
\* true it runs handleTaskCompletion and submits the prompt it returned.
orchestratorDone ==
  LET ok == oresult = "true"
      r == IF ok THEN handleTaskCompletionOp(currentTaskList, taskHistory)
           ELSE Result(currentTaskList, taskHistory, <<>>, "null")
      passed == IF orunKey = Key(currentTaskList) THEN "passed" ELSE verif
  IN /\ opc = "done"
     /\ experimentalOrchestrator
     /\ advanced' = IF r.ev # <<>> THEN passed ELSE advanced
     /\ Call("handleTaskCompletion", <<>>, r)
     /\ IF r.ret = "prompt"
        THEN Submit("next", uiTaskList, r.cur, turns)
        ELSE /\ opc' = "idle"
             /\ isResponding' = FALSE
             /\ olast' = NoExec
             /\ UNCHANGED <<omaxRepairs, osteps, oi, oattempt, onObs, otrace, oabortAt,
                            oresult, orunKey, turns, turnCancelled>>
     /\ UNCHANGED <<now, listsCreated, tasksCreated, experimentalOrchestrator, genVars,
                    verificationPending, timers>>

\* The task_list tool (TaskListToolInvocation.execute with create_tasks):
\* createTaskList with the generated titles, unless none were generated.
taskListToolExecute ==
  \E titles \in TitleSeqs :
    LET r == IF Len(titles) = 0
             THEN Result(currentTaskList, taskHistory, <<>>, "No tasks were generated")
             ELSE createTaskListOp(currentTaskList, taskHistory, now, titles)
    IN /\ turns # <<>>
       /\ Len(titles) > 0 => (listsCreated < MaxLists /\ Room(titles))
       /\ listsCreated' = IF Len(titles) > 0 THEN listsCreated + 1 ELSE listsCreated
       /\ tasksCreated' = tasksCreated + Len(titles)
       /\ Call("task_list", titles, r)
       /\ UNCHANGED <<now, orchVars, ctlVars, genVars>>

\* cancelOngoingRequest (the Escape key while the state is Responding):
\* turnCancelledRef is set and the AbortController of the latest submission
\* is aborted.  An aborted stream ends without a Finished event; runTask
\* never reads its abortSignal, so a run is not affected, and when a run was
\* submitted after the turn the turn keeps streaming.  Neither
\* verificationPendingRef nor the timers of handleFinishedEvent are touched.
cancelOngoingRequest ==
  /\ isResponding
  /\ ~turnCancelled
  /\ turnCancelled' = TRUE
  /\ isResponding' = FALSE
  /\ \/ /\ turns # <<>>
        /\ turns' = SubSeq(turns, 1, Len(turns) - 1)
     \/ /\ opc \notin {"idle", "done"} \/ turns = <<>>
        /\ UNCHANGED turns
  /\ lastCall' = [op |-> "cancelOngoingRequest", args |-> <<>>, ret |-> "void"]
  /\ lastEvents' = <<>>
  /\ UNCHANGED <<currentTaskList, taskHistory, now, listsCreated, tasksCreated,
                 orchVars, experimentalOrchestrator, genVars, verificationPending, timers,
                 orunKey, advanced, obsVars>>

NextCtl ==
  \/ submitQueryUser
  \/ cancelOngoingRequest
  \/ finishTurn
  \/ handleCompletedTools
  \/ timerComplete
  \/ timerResubmit
  \/ orchestratorDone
  \/ planReturns
  \/ stepReturns
  \/ verifyReturns
  \/ repairPlanReturns
  \/ repairStepReturns
  \/ taskListToolExecute
  \/ startCurrentTask

InitCtl == InitCommon /\ experimentalOrchestrator \in BOOLEAN /\ model = "pro"

SpecCtl == InitCtl /\ [][NextCtl]_vars

\* ------------------------------------- TaskListInterceptor: the decision
\* The first test of shouldCreateTaskList, on the lower-cased prompt.
isSimpleQuestion(prompt) ==
  \/ \E prefix \in questionPrefixes : startsWith(prompt, prefix)
  \/ includes(prompt, <<"?">>) /\ ~includes(prompt, <<" ", "a", "n", "d", " ">>)

\* /^verb\s+\w+$/
matchesVerbAndWord(prompt, verb) ==
  /\ startsWith(prompt, verb)
  /\ \E k \in (Len(verb) + 1)..(Len(prompt) - 1) :
       /\ \A i \in (Len(verb) + 1)..k : prompt[i] \in WhitespaceChars
       /\ \A i \in (k + 1)..Len(prompt) : prompt[i] \in WordChars

isSingleCommand(prompt) ==
  \/ prompt \in singleCommandWords
  \/ \E verb \in singleCommandVerbs : matchesVerbAndWord(prompt, verb)

hasMultiStepIndicator(prompt) ==
  \E k \in 1..Len(multiStepIndicators) : includes(prompt, multiStepIndicators[k])

\* prompt.split(' ').length
splitLength(prompt) == Len(split(prompt, " "))

\* Variant: the multi-step indicators are tested before the two skip rules.
localDecision_IndicatorsFirst(userPrompt) ==
  LET prompt == toLowerCase(userPrompt)
  IN IF hasMultiStepIndicator(prompt) \/ splitLength(prompt) > MaxLocalWords THEN "true"
     ELSE IF isSimpleQuestion(prompt) THEN "false"
     ELSE IF isSingleCommand(prompt) THEN "false"
     ELSE "ask"

\* shouldCreateTaskList up to its last line: the answer of the local rules,
\* or "ask" when askFlashToDecide is to be called.
localDecision(userPrompt) ==
  LET prompt == toLowerCase(userPrompt)
  IN IF isSimpleQuestion(prompt) THEN "false"
     ELSE IF isSingleCommand(prompt) THEN "false"
     ELSE IF hasMultiStepIndicator(prompt) \/ splitLength(prompt) > MaxLocalWords THEN "true"
     ELSE "ask"

\* What a Generator call comes back with: it throws, or it answers a text.
Thrown == [kind |-> "throw", text |-> <<>>]

Answer(text) == [kind |-> "text", text |-> text]

DecisionReplies == {Thrown} \cup {Answer(t) : t \in {YesText, YesPadded, YesDot, NoText, EmptyText}}

GenerationReplies ==
  {Thrown} \cup {Answer(t) : t \in {NumberedTwo, BulletsAndNumbered, Chatty, NoTasksText,
                                    EmptyText}}

\* Variant: askFlashToDecide without its catch clause.
askFlashToDecideOp_NoCatch(reply) ==
  IF reply.kind = "throw" THEN "threw"
  ELSE IF toUpperCase(trim(reply.text)) = YesText THEN "true" ELSE "false"

\* askFlashToDecide once the Generator call has settled.
askFlashToDecideOp(reply) ==
  IF reply.kind = "throw" THEN "false"
  ELSE IF toUpperCase(trim(reply.text)) = YesText THEN "true" ELSE "false"

\* Variant: the profile is restored after the try block, not in a finally.
modelAfterCall_NoFinally(originalModel, reply) ==
  IF reply.kind = "throw" THEN DEFAULT_GEMINI_FLASH_MODEL ELSE originalModel

\* The finally clause of a Generator call: config.setModel(originalModel).
modelAfterCall(originalModel, reply) == originalModel

\* ------------------------------------- parseTaskList: titles of a response
LineTerminators == {"\n", "\r"}

\* /^\d+\.\s+(.+)$/ on one line, then trim() of the group: the title in a
\* one-element sequence, or <<>> when the line does not match.
numberedTitle(line) ==
  LET nd == Cardinality({k \in 1..Len(line) : \A j \in 1..k : line[j] \in DigitChars})
  IN IF /\ nd >= 1
        /\ Len(line) >= nd + 3
        /\ line[nd + 1] = "."
        /\ \E k \in (nd + 3)..Len(line) :
             /\ \A i \in (nd + 2)..(k - 1) : line[i] \in WhitespaceChars
             /\ \A i \in k..Len(line) : line[i] \notin LineTerminators
     THEN <<trim(SubSeq(line, nd + 2, Len(line)))>>
     ELSE <<>>

\* line.trim().startsWith('- '), then substring(2).trim().
bulletTitle(line) ==
  IF startsWith(trim(line), <<"-", " ">>)
  THEN <<trim(SubSeq(trim(line), 3, Len(trim(line))))>>
  ELSE <<>>

RECURSIVE titlesOf(_, _)
titlesOf(lines, bullets) ==
  IF lines = <<>> THEN <<>>
  ELSE (IF numberedTitle(Head(lines)) # <<>> THEN numberedTitle(Head(lines))
        ELSE IF bullets THEN bulletTitle(Head(lines))
        ELSE <<>>) \o titlesOf(Tail(lines), bullets)

\* TaskListInterceptor.parseTaskList: numbered lines only.
parseTaskList(responseText) == titlesOf(split(responseText, "\n"), FALSE)

\* TaskListToolInvocation.parseTaskList: numbered lines and bullet lines.
toolParseTaskList(responseText) == titlesOf(split(responseText, "\n"), TRUE)

\* TaskListInterceptor.generateTaskList once the Generator call has settled:
\* a thrown error is caught and gives no titles.
generateTaskListOp(reply) ==
  IF reply.kind = "throw" THEN <<>> ELSE parseTaskList(reply.text)

\* ----------------------------- interceptPrompt and task_list, await by await
\* What interceptPrompt decides locally on each prompt: nothing on an empty
\* text, else the outcome of the rules of shouldCreateTaskList.
LocalDecisions == [p \in Prompts |-> IF p = <<>> THEN "none" ELSE localDecision(p)]

\* interceptPrompt is called: the prompt text is tested, shouldCreateTaskList
\* applies its local rules, and the Generator call that follows (the decision
\* or the generation) switches the model and is awaited.
interceptPromptCall ==
  \E prompt \in Prompts :
    LET d == LocalDecisions[prompt]
        calls == d \in {"ask", "true"}
    IN /\ icpt.pc = "idle"
       /\ tgen.pc = "idle"
       /\ icpt' = [pc |-> IF d = "ask" THEN "deciding"
                          ELSE IF d = "true" THEN "generating" ELSE "idle",
                   prompt |-> prompt,
                   originalModel |-> IF calls THEN model ELSE "",
                   decisionCalls |-> IF d = "ask" THEN 1 ELSE 0,
                   decision |-> IF d = "ask" THEN "pending" ELSE d,
                   decisionReply |-> NoReply,
                   reply |-> NoReply,
                   titles |-> <<>>,
                   result |-> IF calls THEN "pending" ELSE "no"]
       /\ model' = IF calls THEN DEFAULT_GEMINI_FLASH_MODEL ELSE model
       /\ tgen' = IdleCall
       /\ UNCHANGED <<svcVars, orchVars, ctlVars, obsVars>>

\* askFlashToDecide settles and restores the model; interceptPrompt returns
\* unless the answer was YES.
decideReturns ==
  \E reply \in DecisionReplies :
    LET d == askFlashToDecideOp(reply)
    IN /\ icpt.pc = "deciding"
       /\ model' = modelAfterCall(icpt.originalModel, reply)
       /\ icpt' = [icpt EXCEPT !.pc = IF d = "true" THEN "decided" ELSE "idle",
                               !.decision = d,
                               !.decisionReply = reply,
                               !.result = IF d = "true" THEN "pending"
                                          ELSE IF d = "threw" THEN "threw" ELSE "no"]
       /\ UNCHANGED <<svcVars, orchVars, ctlVars, obsVars, tgen>>

\* generateTaskList is entered after a YES of the Generator.
generateTaskListCall ==
  /\ icpt.pc = "decided"
  /\ icpt' = [icpt EXCEPT !.pc = "generating", !.originalModel = model]
  /\ model' = DEFAULT_GEMINI_FLASH_MODEL
  /\ UNCHANGED <<svcVars, orchVars, ctlVars, obsVars, tgen>>

\* generateTaskList settles and restores the model; interceptPrompt creates
\* the list and starts its first task, or returns without a list.
generateReturns ==
  \E reply \in GenerationReplies :
    LET titles == generateTaskListOp(reply)
        r == interceptPromptOp(currentTaskList, taskHistory, now, TRUE, titles)
        created == Len(titles) > 0
    IN /\ icpt.pc = "generating"
       /\ created => (listsCreated < MaxLists /\ Room(titles))
       /\ model' = modelAfterCall(icpt.originalModel, reply)
       /\ listsCreated' = IF created THEN listsCreated + 1 ELSE listsCreated
       /\ tasksCreated' = tasksCreated + Len(titles)
       /\ Call("interceptPrompt", titles, r)
       /\ icpt' = [icpt EXCEPT !.pc = "idle", !.reply = reply, !.titles = titles,
                               !.result = r.ret]
       /\ UNCHANGED <<now, orchVars, ctlVars, tgen>>

\* TaskListToolInvocation.execute with create_tasks: generateTaskList
\* switches the model and awaits the Generator.
toolExecuteCall ==
  /\ tgen.pc = "idle"
  /\ icpt.pc = "idle"
  /\ tgen' = [IdleCall EXCEPT !.pc = "generating", !.originalModel = model,
                              !.result = "pending"]
  /\ model' = DEFAULT_GEMINI_FLASH_MODEL
  /\ icpt' = IdleCall
  /\ UNCHANGED <<svcVars, orchVars, ctlVars, obsVars>>

\* The tool's generateTaskList settles and restores the model; an error it
\* throws is caught by execute, which then creates no list.
toolGenerateReturns ==
  \E reply \in GenerationReplies :
    LET titles == IF reply.kind = "throw" THEN <<>> ELSE toolParseTaskList(reply.text)
        r == IF reply.kind = "throw"
             THEN Result(currentTaskList, taskHistory, <<>>, "Failed to create task list")
             ELSE IF Len(titles) = 0
             THEN Result(currentTaskList, taskHistory, <<>>, "No tasks were generated")
             ELSE createTaskListOp(currentTaskList, taskHistory, now, titles)
        created == Len(titles) > 0
    IN /\ tgen.pc = "generating"
       /\ created => (listsCreated < MaxLists /\ Room(titles))
       /\ model' = modelAfterCall(tgen.originalModel, reply)
       /\ listsCreated' = IF created THEN listsCreated + 1 ELSE listsCreated
       /\ tasksCreated' = tasksCreated + Len(titles)
       /\ Call("task_list", titles, r)
       /\ tgen' = [tgen EXCEPT !.pc = "idle", !.reply = reply, !.titles = titles,
                               !.result = r.ret]
       /\ UNCHANGED <<now, orchVars, ctlVars, icpt>>

NextInt ==
  \/ interceptPromptCall
  \/ decideReturns
  \/ generateTaskListCall
  \/ generateReturns
  \/ toolExecuteCall
  \/ toolGenerateReturns

\* The user's model is either profile when the session starts.
Models == {"pro", DEFAULT_GEMINI_FLASH_MODEL}

InitInt == InitCommon /\ experimentalOrchestrator = FALSE /\ model \in Models

SpecInt == InitInt /\ [][NextInt]_vars

\* ======================================================== the properties
Statuses(l) == {l.tasks[i].status : i \in 1..Len(l.tasks)}

InProgressAt(l) == {i \in 1..Len(l.tasks) : l.tasks[i].status = "in_progress"}

AllLists == {taskHistory[k] : k \in 1..Len(taskHistory)}
              \cup {currentTaskList[k] : k \in 1..Len(currentTaskList)}

CurrentInProgress(c) ==
  /\ getCurrentTask(c) # <<>>
  /\ getCurrentTask(c)[1].status = "in_progress"

\* C1: the current list holds at most one in_progress task, and while the
\* list is active that task is the one at currentTaskIndex.
C1_OneInProgressAtCursor ==
  currentTaskList # <<>> =>
    LET l == currentTaskList[1]
    IN /\ Cardinality(InProgressAt(l)) <= 1
       /\ l.status = "active" => InProgressAt(l) \subseteq {l.currentTaskIndex + 1}

\* C1 witness: an active list whose second task is in progress after an
\* earlier task was finished and tasks were inserted.
C1_Witness ==
  /\ currentTaskList # <<>>
  /\ currentTaskList[1].status = "active"
  /\ currentTaskList[1].currentTaskIndex = 1
  /\ Len(currentTaskList[1].tasks) >= 3
  /\ InProgressAt(currentTaskList[1]) = {2}
  /\ lastCall.op = "insertTasksAfterCurrent"

\* C5 (as claimed): when taskCompleted / taskFailed is delivered, the task is
\* terminal and the cursor already points past it.
C5_EventAfterCursorAdvance ==
  \A k \in 1..Len(lastEvents) :
    lastEvents[k].type \in {"taskCompleted", "taskFailed"} =>
      LET l == lastEvents[k].snap[1]
      IN /\ l.tasks[lastEvents[k].task + 1].status \in {"completed", "failed"}
         /\ l.currentTaskIndex = lastEvents[k].task + 1

FinishPost(c, d, ev, status) ==
  LET l == c[1]
      i == l.currentTaskIndex
  IN /\ d # <<>>
     /\ Len(d[1].tasks) = Len(l.tasks)
     /\ d[1].tasks[i + 1].status = status
     /\ d[1].currentTaskIndex = i + 1
     /\ IF i + 1 = Len(l.tasks)
        THEN /\ d[1].status = "completed"
             /\ \E k \in 1..Len(ev) : ev[k].type = "taskListCompleted"
        ELSE /\ d[1].status = "active"
             /\ d[1].tasks[i + 2].status = "pending"

C6_Step ==
  /\ (completeCurrentTask /\ CurrentInProgress(currentTaskList))
       => FinishPost(currentTaskList, currentTaskList', lastEvents', "completed")
  /\ (failCurrentTask /\ CurrentInProgress(currentTaskList))
       => FinishPost(currentTaskList, currentTaskList', lastEvents', "failed")

\* C6: completing or failing the in_progress current task makes it completed
\* or failed, advances the cursor by one, and either completes the list with
\* a taskListCompleted event or leaves it active on a pending task.
C6_TerminalTransition == [][C6_Step]_vars

\* C6 witness: create([A,B]), start, complete: cursor 1, A completed, B
\* pending, list active.
C6_Witness ==
  /\ lastCall = [op |-> "completeCurrentTask", args |-> <<>>, ret |-> "task"]
  /\ currentTaskList # <<>>
  /\ currentTaskList[1].status = "active"
  /\ currentTaskList[1].currentTaskIndex = 1
  /\ Len(currentTaskList[1].tasks) = 2
  /\ currentTaskList[1].tasks[1].status = "completed"
  /\ currentTaskList[1].tasks[1].title = "A"
  /\ currentTaskList[1].tasks[2].status = "pending"
  /\ currentTaskList[1].tasks[2].title = "B"

\* C7 (as claimed): for every list the service holds, status = completed iff
\* the cursor is at or past the end and no task is in_progress.
C7_CompletedIff ==
  \A l \in AllLists :
    (l.status = "completed") <=>
      (l.currentTaskIndex >= Len(l.tasks) /\ InProgressAt(l) = {})

ActiveLists ==
  Cardinality({k \in 1..Len(taskHistory) : taskHistory[k].status = "active"})
    + Cardinality({k \in 1..Len(currentTaskList) : currentTaskList[k].status = "active"})

C8_Step ==
  (createTaskList /\ currentTaskList # <<>> /\ currentTaskList[1].status = "active")
    => /\ taskHistory' = Append(taskHistory,
                                [currentTaskList[1] EXCEPT !.status = "interrupted"])
       /\ currentTaskList' # <<>>
       /\ currentTaskList'[1].status = "active"
       /\ currentTaskList'[1].currentTaskIndex = 0
       /\ Len(currentTaskList'[1].tasks) = Len(lastCall'.args)
       /\ Statuses(currentTaskList'[1]) \subseteq {"pending"}

\* C8: at most one list among the current one and the history is active;
\* createTaskList on an active list archives it as interrupted and installs
\* a fresh active list with cursor 0 and only pending tasks.
C8_SingleActive == [](ActiveLists <= 1) /\ [][C8_Step]_vars

\* C8 witness: a list with a task in progress was replaced by a new list.
C8_Witness ==
  /\ lastCall.op = "createTaskList"
  /\ Len(taskHistory) = 1
  /\ taskHistory[1].status = "interrupted"
  /\ InProgressAt(taskHistory[1]) # {}
  /\ currentTaskList # <<>>
  /\ currentTaskList[1].status = "active"
  /\ Len(currentTaskList[1].tasks) = 2

NoEffect ==
  /\ currentTaskList' = currentTaskList
  /\ taskHistory' = taskHistory
  /\ lastEvents' = <<>>

C9_Step ==
  /\ (startCurrentTask /\ (getCurrentTask(currentTaskList) = <<>>
                            \/ getCurrentTask(currentTaskList)[1].status # "pending"))
       => (NoEffect /\ lastCall'.ret = "false")
  /\ ((completeCurrentTask \/ failCurrentTask) /\ ~CurrentInProgress(currentTaskList))
       => (NoEffect /\ lastCall'.ret = "none")
  /\ (completeCurrentTask /\ lastCall.op = "completeCurrentTask")
       => (NoEffect /\ lastCall'.ret = "none")

\* C9: start / complete / fail on a violated precondition return false / none,
\* change nothing and emit nothing; a second completeCurrentTask in a row
\* does not advance the cursor again.
C9_SilentNoOp == [][C9_Step]_vars

\* C9 witness: completeCurrentTask was refused on an active list whose
\* current task is still pending, after an earlier task had been completed.
C9_Witness ==
  /\ lastCall = [op |-> "completeCurrentTask", args |-> <<>>, ret |-> "none"]
  /\ currentTaskList # <<>>
  /\ currentTaskList[1].status = "active"
  /\ currentTaskList[1].currentTaskIndex = 1
  /\ currentTaskList[1].tasks[1].status = "completed"
  /\ currentTaskList[1].tasks[2].status = "pending"

InsertPost(l, m, titles) ==
  LET i == l.currentTaskIndex
      k == Len(titles)
  IN /\ m.currentTaskIndex = i
     /\ m.status = l.status
     /\ Len(m.tasks) = Len(l.tasks) + k
     /\ \A j \in 1..(i + 1) : m.tasks[j] = l.tasks[j]
     /\ \A j \in 1..k : /\ m.tasks[i + 1 + j].status = "pending"
                        /\ m.tasks[i + 1 + j].title = titles[j]
     /\ \A j \in (i + 2)..Len(l.tasks) : m.tasks[j + k] = l.tasks[j]

C10_Step ==
  (/\ insertTasksAfterCurrent \/ taskListUpdateExecute
   /\ lastCall'.op \in {"insertTasksAfterCurrent", "insert_after_current"}
   /\ Len(lastCall'.args) >= 1
   /\ CurrentInProgress(currentTaskList))
    => /\ currentTaskList' # <<>>
       /\ InsertPost(currentTaskList[1], currentTaskList'[1], lastCall'.args)

Count(tr, x) == Cardinality({k \in 1..Len(tr) : tr[k] = x})

LastIndex(tr, x) ==
  IF Count(tr, x) = 0 THEN 0
  ELSE CHOOSE k \in 1..Len(tr) : tr[k] = x /\ \A j \in (k + 1)..Len(tr) : tr[j] # x

\* C3 (as claimed): with maxRepairs = N, runTask makes at most N+1
\* verification attempts and at most N repair-plan requests, and a repair
\* request is always followed by another verification attempt.
C3_BoundedRetry ==
  /\ Count(otrace, "req_verify") <= omaxRepairs + 1
  /\ Count(otrace, "req_repair") <= omaxRepairs
  /\ (opc = "done" /\ oresult = "false" /\ otrace[Len(otrace)] = "step_result")
       => LastIndex(otrace, "req_verify") > LastIndex(otrace, "req_repair")

\* C4 (as claimed): once the abort signal has fired, runTask emits no
\* step_start, issues no verification and no repair-plan request, and a
\* run that returns returns false.
C4_CancelHardStop ==
  oabortAt >= 0 =>
    /\ \A k \in (oabortAt + 1)..Len(otrace) :
         otrace[k] \notin {"step_start", "req_verify", "req_repair"}
    /\ (opc = "done" /\ oresult # "rejected") => oresult = "false"

SameList(l, m) == l.oid = m.oid

C11_Step ==
  \A l \in AllLists : \A m \in AllLists' :
    SameList(l, m) =>
      /\ m.currentTaskIndex >= l.currentTaskIndex
      /\ m.currentTaskIndex # l.currentTaskIndex
           => lastCall'.op \in {"completeCurrentTask", "failCurrentTask"}

\* C11: the currentTaskIndex of a list, current or archived, never decreases,
\* and only completeCurrentTask and failCurrentTask change it.
C11_CursorMonotone == [][C11_Step]_vars

\* C11 witness: a list whose cursor had advanced to 1 was archived by
\* clearTaskList and kept its cursor.
C11_Witness ==
  /\ lastCall.op = "clearTaskList"
  /\ currentTaskList = <<>>
  /\ Len(taskHistory) >= 1
  /\ taskHistory[Len(taskHistory)].currentTaskIndex = 1
  /\ Len(taskHistory[Len(taskHistory)].tasks) >= 2

C12_Characterisation ==
  getCurrentTask(currentTaskList) =
    IF /\ currentTaskList # <<>>
       /\ currentTaskList[1].status = "active"
       /\ currentTaskList[1].currentTaskIndex < Len(currentTaskList[1].tasks)
    THEN <<currentTaskList[1].tasks[currentTaskList[1].currentTaskIndex + 1]>>
    ELSE <<>>

C12_Step ==
  /\ (/\ completeCurrentTask
      /\ CurrentInProgress(currentTaskList)
      /\ currentTaskList[1].currentTaskIndex + 1 = Len(currentTaskList[1].tasks))
       => /\ currentTaskList'[1].status = "completed"
          /\ getCurrentTask(currentTaskList') = <<>>
  /\ (/\ currentTaskList # <<>>
      /\ currentTaskList[1].status = "completed"
      /\ currentTaskList' # <<>>
      /\ SameList(currentTaskList[1], currentTaskList'[1]))
       => getCurrentTask(currentTaskList') = <<>>

\* C12: getCurrentTask returns tasks[currentTaskIndex] exactly when a current
\* list exists, is active and has its cursor inside the tasks, and none
\* otherwise; once the last task is completed it returns none for that list.
C12_CurrentTaskOnlyWhenActive == []C12_Characterisation /\ [][C12_Step]_vars

\* C12 witness: the list was completed, a task was appended behind the
\* cursor afterwards, and getCurrentTask still returns none.
C12_Witness ==
  /\ lastCall.op = "appendTasks"
  /\ currentTaskList # <<>>
  /\ currentTaskList[1].status = "completed"
  /\ currentTaskList[1].currentTaskIndex < Len(currentTaskList[1].tasks)
  /\ getCurrentTask(currentTaskList) = <<>>

C13_Step ==
  (createTaskList /\ lastCall'.args = <<>>)
    => /\ currentTaskList' = currentTaskList
       /\ taskHistory' = taskHistory

C13_NoEmptyActive == \A l \in AllLists : l.status = "active" => Len(l.tasks) > 0

\* C13 (as claimed): createTaskList with no titles is rejected: the current
\* list and the history stay as they are and no active list is ever empty.
C13_EmptyTitlesRejected == []C13_NoEmptyActive /\ [][C13_Step]_vars

NoActiveList(c) == c = <<>> \/ c[1].status # "active"

UpdatePost(c, d, ev, k) ==
  /\ d # <<>>
  /\ Len(d[1].tasks) = Len(c[1].tasks) + k
  /\ Cardinality({j \in 1..Len(d[1].tasks) : d[1].tasks[j].status = "pending"})
       = Cardinality({j \in 1..Len(c[1].tasks) : c[1].tasks[j].status = "pending"}) + k
  /\ Len(ev) = 1
  /\ ev[1].type = "taskListUpdated"

C14_Step ==
  (insertTasksAfterCurrent \/ appendTasks) =>
    IF Len(lastCall'.args) = 0 \/ NoActiveList(currentTaskList)
    THEN NoEffect
    ELSE UpdatePost(currentTaskList, currentTaskList', lastEvents', Len(lastCall'.args))

\* C14 (as claimed): insertTasksAfterCurrent and appendTasks change nothing
\* and emit nothing when there are no titles or no active list (a completed
\* current list included); on an active list they add pending tasks only and
\* emit one taskListUpdated event.
C14_UpdateNeedsActiveList == [][C14_Step]_vars

C15_Step ==
  clearTaskList =>
    IF NoActiveList(currentTaskList)
    THEN NoEffect
    ELSE /\ currentTaskList' = <<>>
         /\ taskHistory' = Append(taskHistory,
                                  [currentTaskList[1] EXCEPT !.status = "interrupted"])
         /\ Len(lastEvents') = 1
         /\ lastEvents'[1].type = "taskListCleared"

\* C15 (as claimed): clearTaskList archives the list as interrupted and emits
\* taskListCleared only when the current list is active; otherwise it changes
\* no status, adds nothing to the history and emits nothing.
C15_ClearNeedsActiveList == [][C15_Step]_vars

TaskIds(l) == {l.tasks[j].id : j \in 1..Len(l.tasks)}

C16_Distinct == \A l \in AllLists : Cardinality(TaskIds(l)) = Len(l.tasks)

C16_Step ==
  \A l \in AllLists : \A m \in AllLists' :
    SameList(l, m) =>
      \E f \in [1..Len(l.tasks) -> 1..Len(m.tasks)] :
        /\ \A j \in 1..Len(l.tasks) :
             /\ m.tasks[f[j]].id = l.tasks[j].id
             /\ m.tasks[f[j]].title = l.tasks[j].title
        /\ \A i, j \in 1..Len(l.tasks) : i < j => f[i] < f[j]

\* C16 (as claimed): within a list the task ids are pairwise distinct, also
\* when tasks are added at the clock reading at which others were created,
\* and every task keeps its id.
C16_UniqueStableIds == []C16_Distinct /\ [][C16_Step]_vars

Owner(c) == Key(c)[1]

C17_Step ==
  /\ (/\ timerComplete
      /\ timers.complete[1] >= 0
      /\ timers.complete[1] # Owner(currentTaskList))
       => UNCHANGED <<currentTaskList, taskHistory>>
  /\ (/\ orchestratorDone
      /\ orunKey[1] >= 0
      /\ orunKey[1] # Owner(currentTaskList))
       => UNCHANGED <<currentTaskList, taskHistory>>

C18_Step ==
  (finishTurn /\ lastCall'.args[1] # "STOP")
    => /\ UNCHANGED <<currentTaskList, taskHistory, verificationPending, timers>>
       /\ UNCHANGED <<orchVars, orunKey>>
       /\ Len(turns') = Len(turns) - 1
       /\ lastCall'.ret = "void"

\* C18: a Finished event with a reason other than STOP completes no task,
\* leaves the cursor and the verification-pending flag as they are, arms no
\* timer and submits no continuation.
C18_OnlyStopAdvances == [][C18_Step]_vars

\* C18 witness: the verification turn of an in_progress task ended with
\* MAX_TOKENS while verification was pending; the flag and the task are
\* as before.
C18_Witness ==
  /\ lastCall.op = "handleFinishedEvent"
  /\ lastCall.args = <<"MAX_TOKENS", "verify", "current">>
  /\ verificationPending
  /\ CurrentInProgress(currentTaskList)
  /\ timers.complete = <<>>
  /\ turns = <<>>

C19_Step ==
  (finishTurn /\ ~verificationPending /\ verificationPending')
    => /\ lastCall'.ret = "verify"
       /\ UNCHANGED <<currentTaskList, taskHistory, timers>>

\* C19 (as claimed): a STOP finish while no verification is pending sets the
\* flag only together with the submission of a verification prompt, and
\* completes no task.
C19_FlagOnlyWithVerifyPrompt == [][C19_Step]_vars

C20_Step ==
  (/\ finishTurn
   /\ verificationPending
   /\ ~verificationPending'
   /\ getCurrentTask(currentTaskList) # <<>>)
    => /\ lastCall'.args[2] = "verify"
       /\ lastCall'.args[3] = "current"

\* C20 (as claimed): while verification is pending, only the finish of the
\* verification turn submitted for the current task clears the flag and
\* schedules handleTaskCompletion.
C20_OnlyVerifyTurnCompletes == [][C20_Step]_vars

\* No runTask is entered by the step.
NoRunStarted == opc' = "plan" => opc = "plan"

C21_Step ==
  turnCancelled
    => /\ timerComplete
            => /\ UNCHANGED <<currentTaskList, taskHistory>>
               /\ timers'.resubmit = timers.resubmit
       /\ timerResubmit => (turns' = turns /\ NoRunStarted)
       /\ orchestratorDone
            => (UNCHANGED <<currentTaskList, taskHistory, turns>> /\ NoRunStarted)
       /\ finishTurn => lastCall'.ret # "verify"

C22_Step == cancelOngoingRequest => ~verificationPending'

\* C22 (as claimed): right after a cancellation the verification-pending flag
\* is false, so that the next STOP finish asks for a verification pass and
\* does not complete a task.
C22_CancelClearsPending == [][C22_Step]_vars

\* C23 (as claimed): runTask never rejects; when the Generator call for the
\* plan, for the fallback verification or for the repair plan fails, the
\* promise still resolves, with false.
C23_RunTaskNeverRejects == oresult # "rejected"

C24_Step ==
  /\ (decideReturns /\ icpt'.decisionReply.kind = "throw")
       => /\ icpt'.decision = "false"
          /\ icpt'.result = "no"
          /\ icpt'.pc = "idle"
          /\ UNCHANGED <<currentTaskList, taskHistory>>
  /\ (generateReturns /\ (icpt'.reply.kind = "throw" \/ icpt'.titles = <<>>))
       => /\ icpt'.result = "attempted"
          /\ lastEvents' = <<>>
          /\ UNCHANGED <<currentTaskList, taskHistory, listsCreated, uiTaskList>>

\* C24: interceptPrompt never throws; a Generator error in the YES/NO
\* decision gives the decision NO, and a Generator error or an empty title
\* list in the generation gives shouldProceedWithTaskList = false with no
\* list created and the service state as it was.
C24_DecompositionFailuresSwallowed == [](icpt.result # "threw") /\ [][C24_Step]_vars

\* The generation failed while a list made earlier was current: that list
\* is still the current one.
C24_Witness ==
  /\ icpt.pc = "idle"
  /\ icpt.reply.kind = "throw"
  /\ icpt.result = "attempted"
  /\ currentTaskList # <<>>
  /\ lastCall.op = "interceptPrompt"

InFlight(pc) == pc \in {"deciding", "generating"}

C25_Step ==
  /\ (~InFlight(icpt.pc) /\ InFlight(icpt'.pc))
       => (icpt'.originalModel = model /\ model' = DEFAULT_GEMINI_FLASH_MODEL)
  /\ (InFlight(icpt.pc) /\ ~InFlight(icpt'.pc)) => model' = icpt.originalModel
  /\ (~InFlight(tgen.pc) /\ InFlight(tgen'.pc))
       => (tgen'.originalModel = model /\ model' = DEFAULT_GEMINI_FLASH_MODEL)
  /\ (InFlight(tgen.pc) /\ ~InFlight(tgen'.pc)) => model' = tgen.originalModel

\* C25: the decision call and both generateTaskList calls switch to the
\* cheaper model when they begin, and when they end, with an answer or with
\* an error, the model is the one that was active when the call began.
C25_ProfileRestored == [][C25_Step]_vars

\* The tool's Generator call failed and the model is the user's again.
C25_Witness ==
  /\ tgen.pc = "idle"
  /\ tgen.reply.kind = "throw"
  /\ tgen.originalModel = "pro"
  /\ model = "pro"

claimedTitle(line) ==
  IF numberedTitle(line) # <<>> THEN numberedTitle(line)
  ELSE IF startsWith(line, <<"-", " ">>) THEN <<trim(SubSeq(line, 3, Len(line)))>>
  ELSE <<>>

RECURSIVE claimedTitles(_)
claimedTitles(lines) ==
  IF lines = <<>> THEN <<>>
  ELSE claimedTitle(Head(lines)) \o claimedTitles(Tail(lines))

\* C27 (as claimed): generateTaskList returns, in the order of the response,
\* one title for every numbered line and every line that begins with "- ",
\* and nothing for any other line.
C27_TitlesPerLine ==
  /\ (icpt.pc = "idle" /\ icpt.reply.kind = "text")
       => icpt.titles = claimedTitles(split(icpt.reply.text, "\n"))
  /\ (tgen.pc = "idle" /\ tgen.reply.kind = "text")
       => tgen.titles = claimedTitles(split(tgen.reply.text, "\n"))

\* The index of the last plan event of the trace, and the step_start events
\* after it.
StepStartsOfPlan(tr) ==
  Cardinality({k \in (LastIndex(tr, "plan") + 1)..Len(tr) : tr[k] = "step_start"})

C28_Order ==
  /\ \A k \in 1..Len(otrace) :
       otrace[k] = "step_start"
         => /\ k > 1 /\ otrace[k - 1] \in {"plan", "step_result"}
            /\ k < Len(otrace) /\ otrace[k + 1] = "req_tool"
            /\ k + 2 <= Len(otrace) => otrace[k + 2] = "step_result"
  /\ onObs = Count(otrace, "step_result")
  /\ Count(otrace, "req_tool") = Count(otrace, "step_start")
  /\ opc \in {"step", "repairStep"}
       => /\ otrace[Len(otrace)] = "req_tool"
          /\ StepStartsOfPlan(otrace) = oi + 1
          /\ oi + 1 <= Len(osteps)

C28_Step ==
  ((stepReturns \/ repairStepReturns) /\ olast'.error)
    => /\ onObs' = onObs + 1
       /\ oresult' # "rejected"
       /\ IF oi + 1 < Len(osteps)
          THEN /\ opc' = opc
               /\ oi' = oi + 1
               /\ otrace' = otrace \o <<"step_result", "step_start", "req_tool">>
          ELSE IF opc = "step" \/ oattempt + 1 <= omaxRepairs
          THEN otrace' = otrace \o <<"step_result", "verify", "req_verify">>
          ELSE otrace' = otrace \o <<"step_result">>

\* C28: the steps of a plan run in plan order, one at a time: every
\* step_start follows the plan event or the step_result of the step before,
\* is followed by one executeToolCall, one observation and step_result; a
\* step whose call throws is followed by the next step, or after the last
\* step by the verification, as a step that succeeds is.
C28_StepsInOrder == []C28_Order /\ [][C28_Step]_vars

\* The first step of a two-step plan threw and the second is running.
C28_Witness ==
  /\ opc = "step"
  /\ oi = 1
  /\ onObs = 1
  /\ olast.error
  /\ otrace = <<"info", "req_plan", "plan", "step_start", "req_tool", "step_result",
                "step_start", "req_tool">>

\* The safelist of the specification.
Safelist ==
  {"shell", "edit", "write_file", "read_file", "ls", "glob", "grep", "read_many_files",
   "web_fetch"}

\* What the claim calls an initial plan with no usable step.
Unusable(reply) ==
  \/ reply.kind = "garbage"
  \/ reply.kind = "json" /\ \A k \in 1..Len(reply.steps) : reply.steps[k] \notin Safelist

C29_Step ==
  \A reply \in PlanReplies :
    (planReturnsWith(reply) /\ Unusable(reply))
      => /\ otrace' = <<"info", "req_plan", "error">>
         /\ opc' = "done"
         /\ oresult' = "false"
         /\ onObs' = 0
         /\ olast' = NoExec

C30_SafelistAndCaps ==
  /\ olast.tools \subseteq Safelist
  /\ opc \in {"step", "repairStep"} => osteps[oi + 1] \in Safelist
  /\ opc = "step" => (Len(osteps) <= 5 /\ StepStartsOfPlan(otrace) <= 5)
  /\ opc = "repairStep" => (Len(osteps) <= 3 /\ StepStartsOfPlan(otrace) <= 3)
  /\ olast.proposed <= 2
  /\ olast.proposed > 0 => olast.tools = {"shell"}

\* The fifth step of a plan cut down from six has run, and the verification
\* ran two of the three shell commands the Generator proposed.
C30_Witness ==
  /\ oi = 4
  /\ Len(osteps) = 5
  /\ osteps[5] = "shell"
  /\ Count(otrace, "verify_result") = 1
  /\ olast.proposed = 2
  /\ olast.tools = {"shell"}

\* ---------------------------------------------------------------- C31
\* C31: whenever verify() finds no manifest-based check (no manifest, a
\* manifest that does not parse, or a manifest with none of the known script
\* names), it goes on to the Generator-proposed verification path.
C31_FallsThroughToGenerator ==
  (olast.path # "none" /\ ~olast.available) => olast.path = "generator"

\* ---------------------------------------------------------------- C32
\* C32: runTask returns true (verification succeeded) only if at least one
\* verification command was passed to executeToolCall, and, when the
\* Generator-proposed path decided, only if one of the proposed commands
\* was run: a proposed plan without a runnable command fails verification.
C32_SuccessNeedsRunCommand ==
  oresult = "true" =>
    /\ olast.tools # {}
    /\ olast.path = "generator" => olast.proposed > 0

\* ---------------------------------------------------------------- C33
\* C33: handleTaskCompletion returns a next-task prompt exactly when it
\* completed an in_progress current task and another task remains, and then
\* the task at the new cursor is in_progress; when no task was in_progress
\* or the completed task was the last one it returns none and starts no task.
C33_Step ==
  (timerComplete \/ (orchestratorDone /\ oresult = "true")) =>
    LET c == currentTaskList
        d == currentTaskList'
        was == CurrentInProgress(c)
        remains == was /\ c[1].currentTaskIndex + 1 < Len(c[1].tasks)
        started == {e \in 1..Len(lastEvents') : lastEvents'[e].type = "taskStarted"}
    IN /\ lastCall'.ret = "prompt" <=> remains
       /\ lastCall'.ret \in {"prompt", "null"}
       /\ was => /\ d # <<>>
                 /\ d[1].currentTaskIndex = c[1].currentTaskIndex + 1
                 /\ d[1].tasks[c[1].currentTaskIndex + 1].status = "completed"
       /\ remains => /\ d[1].status = "active"
                     /\ d[1].tasks[d[1].currentTaskIndex + 1].status = "in_progress"
                     /\ InProgressAt(d[1]) = {d[1].currentTaskIndex + 1}
       /\ ~remains => /\ started = {}
                      /\ d # <<>> => InProgressAt(d[1]) \subseteq InProgressAt(c[1])
       /\ ~was => /\ d = c
                  /\ taskHistory' = taskHistory
                  /\ lastEvents' = <<>>

C33_PromptIffTaskRemains == [][C33_Step]_vars

\* The first of two tasks was completed and the second one started.
C33_Witness ==
  /\ lastCall.op = "handleTaskCompletion"
  /\ lastCall.ret = "prompt"
  /\ currentTaskList # <<>>
  /\ currentTaskList[1].currentTaskIndex = 1
  /\ currentTaskList[1].tasks[1].status = "completed"
  /\ currentTaskList[1].tasks[2].status = "in_progress"

\* ---------------------------------------------------------------- C34
\* A status change of one task and the operation that may make it.
AllowedChange(from, to, op) ==
  \/ from = to
  \/ from = "pending" /\ to = "in_progress" /\ op = "startCurrentTask"
  \/ from = "in_progress" /\ to = "completed" /\ op = "completeCurrentTask"
  \/ from = "in_progress" /\ to = "failed" /\ op = "failCurrentTask"

C34_Step ==
  \A l \in AllLists :
    /\ \E m \in AllLists' : SameList(l, m)
    /\ \A m \in AllLists' :
         SameList(l, m) =>
           \E f \in [1..Len(l.tasks) -> 1..Len(m.tasks)] :
             /\ \A i, j \in 1..Len(l.tasks) : i < j => f[i] < f[j]
             /\ \A j \in 1..Len(l.tasks) :
                  /\ m.tasks[f[j]].title = l.tasks[j].title
                  /\ AllowedChange(l.tasks[j].status, m.tasks[f[j]].status, lastCall'.op)
             /\ \A k \in 1..Len(m.tasks) :
                  (\A j \in 1..Len(l.tasks) : f[j] # k) => m.tasks[k].status = "pending"

\* C34: a task's status changes only from pending to in_progress by
\* startCurrentTask and from in_progress to completed or failed by
\* completeCurrentTask or failCurrentTask; a terminal task keeps its status,
\* no pending task becomes terminal in one step, and every task of a list,
\* current or archived, stays in that list, in order.
C34_TaskLifecycle == [][C34_Step]_vars

\* A failed task and a completed task kept their status while tasks were
\* inserted behind them and the list was archived.
C34_Witness ==
  /\ currentTaskList = <<>>
  /\ Len(taskHistory) = 1
  /\ Len(taskHistory[1].tasks) = 3
  /\ taskHistory[1].tasks[1].status = "failed"
  /\ taskHistory[1].tasks[2].status = "completed"
  /\ taskHistory[1].tasks[3].status = "pending"
  /\ lastCall.op = "clearTaskList"

\* ---------------------------------------------------------------- C35
Terminal(status) == status \in {"completed", "failed"}

\* C35: after every TaskListService operation the current list has
\* 0 <= currentTaskIndex <= len(tasks); while it is active the cursor is
\* inside the tasks, every task before it is completed or failed, the task
\* at it is pending or in_progress and every task after it is pending.
C35_CursorPartition ==
  currentTaskList # <<>> =>
    LET l == currentTaskList[1]
        i == l.currentTaskIndex
    IN /\ 0 <= i
       /\ i <= Len(l.tasks)
       /\ l.status = "active" =>
            /\ i < Len(l.tasks)
            /\ \A j \in 1..Len(l.tasks) :
                 /\ j < i + 1 => Terminal(l.tasks[j].status)
                 /\ j = i + 1 => l.tasks[j].status \in {"pending", "in_progress"}
                 /\ j > i + 1 => l.tasks[j].status = "pending"

\* ---------------------------------------------------------------- C36
C36_Step ==
  \A l \in AllLists : \A m \in AllLists' :
    /\ (SameList(l, m) /\ l.status = "completed") => m.status = "completed"
    /\ (SameList(l, m) /\ m.status = "interrupted" /\ l.status # "interrupted")
         => l.status = "active"

\* C36: a list that has reached status completed keeps it under every
\* operation, so a list takes status interrupted only from status active.
C36_CompletedIsTerminal == [][C36_Step]_vars

\* ---------------------------------------------------------------- C37
C37_Step ==
  (submitQueryUser /\ lastCall'.ret = "proceed") =>
    /\ currentTaskList' # <<>>
    /\ currentTaskList'[1].status = "active"
    /\ currentTaskList'[1].currentTaskIndex = 0
    /\ Len(currentTaskList'[1].tasks) = Len(lastCall'.args)
    /\ currentTaskList'[1].tasks[1].status = "in_progress"
    /\ \A e \in 1..Len(lastEvents') : lastEvents'[e].type # "taskListCleared"

\* C37: when submitQuery handles a new request for which interceptPrompt
\* created a list and started its first task, that list is the service's
\* active list with task 1 in_progress when the turn is sent: the
\* clear-on-new-prompt step does not clear it.
C37_CreatedListSurvives == [][C37_Step]_vars

\* ------------------------------------------- the conversational path, live
\* The Finished event of a turn that ended with a natural stop.
finishTurnStop == finishTurn /\ lastCall'.args[1] = "STOP"

\* A user request while no task list has been created yet.
submitFirstRequest == submitQueryUser /\ listsCreated = 0

\* The task_list tool creates the list of the request.
createFirstList == taskListToolExecute /\ listsCreated = 0

\* The conversational path under the conditions of an undisturbed run: the
\* orchestrator is off, every turn ends with STOP, nothing is cancelled and
\* the user sends nothing once a list exists.
NextLive ==
  \/ submitFirstRequest
  \/ finishTurnStop
  \/ handleCompletedTools
  \/ timerComplete
  \/ timerResubmit
  \/ createFirstList
  \/ startCurrentTask

InitLive == InitCommon /\ experimentalOrchestrator = FALSE /\ model = "pro"

\* Every streamed turn delivers its Finished event and every armed timer runs.
SpecLive ==
  /\ InitLive
  /\ [][NextLive]_vars
  /\ WF_vars(finishTurnStop)
  /\ WF_vars(timerComplete)
  /\ WF_vars(timerResubmit)

\* ---------------------------------------------------------------- C38
\* The list made by the o-th creation has a task that was started.
Started(o) ==
  \E l \in AllLists : l.oid = o /\ Statuses(l) # {} /\ Statuses(l) # {"pending"}

Completed(o) ==
  \E l \in AllLists : l.oid = o /\ l.status = "completed" /\ Statuses(l) = {"completed"}

C38_Eventually == \A o \in 0..(MaxLists - 1) : Started(o) ~> Completed(o)

\* A task is completed only after a verification turn for it has finished, a
\* verification turn is submitted for a task only if none was before, and
\* nothing is submitted once the list is completed.
C38_Step ==
  /\ (timerComplete /\ lastEvents' # <<>>) => advanced' # "undetermined"
  /\ (finishTurn /\ lastCall'.ret = "verify") =>
       /\ verif = "undetermined"
       /\ Len(SelectSeq(turns', LAMBDA t : t.kind = "verify"
                                           /\ t.key = Key(currentTaskList))) = 1
  /\ (currentTaskList # <<>> /\ currentTaskList[1].status = "completed") =>
       /\ ~timerResubmit
       /\ ~(finishTurn /\ lastCall'.ret = "verify")

\* C38: on the conversational path, when every turn ends with a natural
\* stop, nothing is cancelled and no new user request arrives, a list that
\* was created and started eventually has status completed with all its
\* tasks completed, after exactly one verification turn per task, and no
\* prompt is submitted after the last task.
C38_ListCompletes == C38_Eventually /\ [][C38_Step]_vars

\* ------------------------------------ overlapping profile-switching calls
\* isResponding is set only after interceptPrompt has returned, so the guard
\* of submitQuery lets a second submission in while the first one is still
\* awaiting the Generator; the turn of the second can run the task_list
\* tool, whose execute then begins while interceptPrompt is suspended.
toolExecuteDuringIntercept ==
  /\ tgen.pc = "idle"
  /\ icpt.pc \in {"deciding", "decided", "generating"}
  /\ tgen' = [IdleCall EXCEPT !.pc = "generating", !.originalModel = model,
                              !.result = "pending"]
  /\ model' = DEFAULT_GEMINI_FLASH_MODEL
  /\ UNCHANGED <<svcVars, orchVars, ctlVars, obsVars, icpt>>

NextOverlap ==
  \/ interceptPromptCall
  \/ decideReturns
  \/ generateTaskListCall
  \/ generateReturns
  \/ toolExecuteDuringIntercept
  \/ toolGenerateReturns

SpecOverlap == Init /\ [][NextOverlap]_vars

\* ---------------------------------------------------------------- C39
\* C39: also when two profile-switching Generator calls overlap, once none
\* is in flight the configured model is the main conversation model that
\* was configured before the first of them began (the session starts with
\* "pro"), not the cheaper profile.
C39_ProfileRestoredAfterOverlap ==
  (~InFlight(icpt.pc) /\ ~InFlight(tgen.pc)) => model = "pro"

\* ---------------------------------------------------------------- C40
\* The 300 ms timer runs handleTaskCompletion directly after another call
\* site did (a timer or the orchestrator branch), which completed a task and
\* started the next one: nothing was submitted, streamed or run in between,
\* and no run for the new task has finished.
RacingCall ==
  /\ timerComplete
  /\ lastCall.op = "handleTaskCompletion"
  /\ lastCall.ret = "prompt"
  /\ ~(opc = "done" /\ orunKey = Key(currentTaskList))

C40_Step ==
  RacingCall =>
    /\ currentTaskList' # <<>>
    /\ currentTaskList'[1].currentTaskIndex = currentTaskList[1].currentTaskIndex
    /\ currentTaskList'[1].tasks[currentTaskList[1].currentTaskIndex + 1].status
         # "completed"

====
